---- MODULE Spec2Model ----
(***************************************************************************)
(* Model of the users/messages HTTP service: the gin handlers of           *)
(* server/handlers, the data-access functions of server/queries and the    *)
(* PostgreSQL schema and seed data they run against.  Every request is     *)
(* handled synchronously, so each handler is one action.                   *)
(***************************************************************************)
EXTENDS Integers, Sequences, FiniteSets, TLC

VARIABLES users, user_types, messages, users_id_seq, messages_id_seq, now, req, resp,
          calls, stmts, nreq, open_conns, conn_log, inflight

vars == <<users, user_types, messages, users_id_seq, messages_id_seq, now, req, resp,
          calls, stmts, nreq, open_conns, conn_log, inflight>>

(* ---------------------------------------------------------------------- *)
(* Bounds                                                                  *)
(* ---------------------------------------------------------------------- *)
\* number of requests (and collaborator operations) in one behaviour
MaxRequests == 2

\* the requests in flight together
MaxConcurrent == 2

(* ---------------------------------------------------------------------- *)
(* Values                                                                  *)
(* ---------------------------------------------------------------------- *)
\* Go *string: nil or a pointer to a string
nil == <<>>

StringPtr(s) == <<s>>

Deref(p) == p[1]

\* a PostgreSQL column value: NULL or a value
NULL == <<>>

SqlVal(v) == <<v>>

\* pgtype.Text
PgText(s, valid) == [String |-> s, Valid |-> valid]

\* pgx encoding of a pgtype.Text query argument: invalid is NULL
EncodeText(t) == IF t.Valid THEN SqlVal(t.String) ELSE NULL

\* pgx Scan of a nullable text column into a pgtype.Text
ScanText(v) == IF v = NULL THEN PgText("", FALSE) ELSE PgText(v[1], TRUE)

\* a member of a JSON object: absent, null, or a string
JsonAbsent == <<>>

JsonNull == <<"null">>

JsonStr(s) == <<"string", s>>

JsonNum(n) == <<"number", n>>

\* encoding/json into a Go int field: absent and null leave the zero value
BindInt(j) == IF Len(j) = 2 THEN j[2] ELSE 0

\* encoding/json into a Go string field: absent and null leave the zero value
BindString(j) == IF Len(j) = 2 THEN j[2] ELSE ""

\* mutation: null is decoded as a pointer to the empty string
BindStringPtr_NullIsEmpty(j) ==
  IF Len(j) = 2 THEN StringPtr(j[2]) ELSE IF Len(j) = 1 THEN StringPtr("") ELSE nil

\* encoding/json into a Go *string field: absent and null leave nil
BindStringPtr(j) == IF Len(j) = 2 THEN StringPtr(j[2]) ELSE nil

\* error values: the empty string is the nil error
NoError == ""

ErrNoRows == "no rows in result set"

ErrScanNull == "can't scan into dest[5]: cannot scan NULL into *string"

ErrUniqueUsername == "ERROR: duplicate key value violates unique constraint \"users_username_key\" (SQLSTATE 23505)"

ErrUniqueEmail == "ERROR: duplicate key value violates unique constraint \"users_email_key\" (SQLSTATE 23505)"

StatusOK == 200

StatusCreated == 201

StatusBadRequest == 400

StatusNotFound == 404

(* ---------------------------------------------------------------------- *)
(* Schema and seed data                                                    *)
(* ---------------------------------------------------------------------- *)
SeedUsers ==
  { [id |-> 1, username |-> "Liam", email |-> "liam@email.com", nickname |-> SqlVal("L dawg"),
     user_type |-> "UTYPE_ADMIN", message_count |-> 1],
    [id |-> 2, username |-> "Jon", email |-> "jon@email.com", nickname |-> NULL,
     user_type |-> "UTYPE_USER", message_count |-> 2],
    [id |-> 3, username |-> "Myles", email |-> "myles@email.com", nickname |-> SqlVal("Big M"),
     user_type |-> "UTYPE_USER", message_count |-> 2] }

SeedUserTypes ==
  { [id |-> 1, type_key |-> "UTYPE_USER", permission_bitfield |-> "00000000"],
    [id |-> 2, type_key |-> "UTYPE_ADMIN", permission_bitfield |-> "10000000"],
    [id |-> 3, type_key |-> "UTYPE_ADMIN", permission_bitfield |-> "10000000"],
    [id |-> 4, type_key |-> "UTYPE_MODERATOR", permission_bitfield |-> "01000000"] }

\* one INSERT statement: every seed message gets the same CURRENT_TIMESTAMP
SeedMessages ==
  { [id |-> 1, user_id |-> 1, content |-> "Hello, this is Liam!", created_at |-> 0],
    [id |-> 2, user_id |-> 2, content |-> "Hi, I am Jon.", created_at |-> 0],
    [id |-> 3, user_id |-> 3, content |-> "Myles here!", created_at |-> 0],
    [id |-> 4, user_id |-> 2, content |-> "Another message from Jon.", created_at |-> 0],
    [id |-> 5, user_id |-> 3, content |-> "Myles again with another message.", created_at |-> 0] }

\* message_count INT DEFAULT 0
DefaultMessageCount == 0

\* a JSON request body: malformed, or an object with these members
NoBody == [malformed |-> FALSE, username |-> JsonAbsent, email |-> JsonAbsent,
           user_type |-> JsonAbsent, nickname |-> JsonAbsent, user_id |-> JsonAbsent,
           content |-> JsonAbsent]

Body(username, email, user_type, nickname) ==
  [NoBody EXCEPT !.username = username, !.email = email, !.user_type = user_type,
                 !.nickname = nickname]

MessageBody(user_id, content) == [NoBody EXCEPT !.user_id = user_id, !.content = content]

MalformedBody == [NoBody EXCEPT !.malformed = TRUE]

\* a request: the route, the :user_id path parameter as its characters, the body
Request(route, user_id, body) == [route |-> route, user_id |-> user_id, body |-> body]

NoRequest == Request("", <<>>, NoBody)

NoResponse == [status |-> 0, error |-> NoError, body |-> <<>>]

Init ==
  /\ users = SeedUsers
  /\ user_types = SeedUserTypes
  /\ messages = SeedMessages
  /\ users_id_seq = 3
  /\ messages_id_seq = 5
  /\ now = 0
  /\ req = NoRequest
  /\ resp = NoResponse
  /\ calls = <<>>
  /\ stmts = <<>>
  /\ nreq = 0
  /\ open_conns = 0
  /\ conn_log = <<>>
  /\ inflight = <<>>

(* ---------------------------------------------------------------------- *)
(* queries: the connection of one data-access call                         *)
(* ---------------------------------------------------------------------- *)
\* conn := GetConnection(): one more open connection
GetConnection(conn) ==
  [open |-> conn.open + 1, log |-> Append(conn.log, "GetConnection")]

\* conn.Close(context.TODO())
CloseConnection(conn) ==
  [open |-> conn.open - 1, log |-> Append(conn.log, "conn.Close")]

\* mutation: the connection is closed on the success path only
DeferClose_OnSuccessOnly(conn, err) == IF err = NoError THEN CloseConnection(conn) ELSE conn

\* defer conn.Close(context.TODO()): runs when the function returns, whatever it returns
DeferClose(conn, err) == CloseConnection(conn)

\* the connection use of one data-access function that returns err
DataAccess(err) == DeferClose(GetConnection([open |-> open_conns, log |-> <<>>]), err)

\* a handler that answers without calling the data layer
NoDataAccess == [open |-> open_conns, log |-> <<>>]

(* ---------------------------------------------------------------------- *)
(* queries: GetUsers                                                       *)
(* ---------------------------------------------------------------------- *)
\* GetUsersQueryRow{}: the zero value returned next to an error
ZeroUserRow == [ID |-> 0, Username |-> "", Email |-> "", UserType |-> "",
                Nickname |-> PgText("", FALSE), PermissionBitfield |-> "", MessageCount |-> 0]

\* FROM users u LEFT JOIN user_types ut ON ut.type_key = u.user_type
\*              LEFT JOIN messages m ON m.user_id = u.id
\* a side with no match contributes one all-NULL row
JoinUserTypes(u) ==
  LET match == {t \in user_types : t.type_key = u.user_type}
  IN  IF match = {} THEN {NULL} ELSE {SqlVal(t) : t \in match}

JoinMessages(u) ==
  LET match == {m \in messages : m.user_id = u.id}
  IN  IF match = {} THEN {NULL} ELSE {SqlVal(m) : m \in match}

GetUsersJoin ==
  UNION { { [u |-> u, ut |-> t, m |-> m] : t \in JoinUserTypes(u), m \in JoinMessages(u) }
          : u \in users }

\* ut.permission_bitfield::text of a joined row
JoinedBitfield(j) == IF j.ut = NULL THEN NULL ELSE SqlVal(j.ut[1].permission_bitfield)

\* GROUP BY u.id, u.username, u.email, u.user_type, u.nickname, ut.permission_bitfield
GetUsersGroupKeys == { [u |-> j.u, bit |-> JoinedBitfield(j)] : j \in GetUsersJoin }

\* COUNT(m.id): the joined rows of the group whose m.id is not NULL
CountMessageIds(k) ==
  Cardinality({ j \in GetUsersJoin : j.u = k.u /\ JoinedBitfield(j) = k.bit /\ j.m # NULL })

\* SELECT DISTINCT ...: the result rows form a set
GetUsersResultSet ==
  { [id |-> k.u.id, username |-> k.u.username, email |-> k.u.email, user_type |-> k.u.user_type,
     nickname |-> k.u.nickname, permission_bitfield |-> k.bit,
     message_count |-> CountMessageIds(k)] : k \in GetUsersGroupKeys }

MinId(S) == CHOOSE i \in {r.id : r \in S} : \A r \in S : i <= r.id

\* ORDER BY u.id: every arrangement with ascending ids; rows of one id come in any order
RECURSIVE OrderById(_)
OrderById(S) ==
  IF S = {} THEN {<<>>}
  ELSE UNION { { <<r>> \o t : t \in OrderById(S \ {r}) } : r \in {x \in S : x.id = MinId(S)} }

\* mutation: a NULL bitfield is read as the empty string
ScanUserRow_NullAsEmpty(r) ==
  [err |-> NoError,
   user |-> [ID |-> r.id, Username |-> r.username, Email |-> r.email,
             UserType |-> r.user_type, Nickname |-> ScanText(r.nickname),
             PermissionBitfield |-> IF r.permission_bitfield = NULL THEN ""
                                    ELSE r.permission_bitfield[1],
             MessageCount |-> r.message_count]]

\* rows.Scan of one result row; PermissionBitfield is a plain string and cannot take NULL
ScanUserRow(r) ==
  IF r.permission_bitfield = NULL
  THEN [err |-> ErrScanNull, user |-> ZeroUserRow]
  ELSE [err |-> NoError,
        user |-> [ID |-> r.id, Username |-> r.username, Email |-> r.email,
                  UserType |-> r.user_type, Nickname |-> ScanText(r.nickname),
                  PermissionBitfield |-> r.permission_bitfield[1],
                  MessageCount |-> r.message_count]]

\* mutation: on a scan error the rows scanned so far are returned with the error
RECURSIVE ScanUserRows_ReturnsPrefix(_, _, _)
ScanUserRows_ReturnsPrefix(rows, i, acc) ==
  IF i > Len(rows) THEN [rows |-> acc, err |-> NoError]
  ELSE LET s == ScanUserRow(rows[i])
       IN  IF s.err # NoError THEN [rows |-> acc, err |-> s.err]
           ELSE ScanUserRows_ReturnsPrefix(rows, i + 1, Append(acc, s.user))

\* for rows.Next() { Scan; if err return nil, err; users = append(users, user) }
RECURSIVE ScanUserRows(_, _, _)
ScanUserRows(rows, i, acc) ==
  IF i > Len(rows) THEN [rows |-> acc, err |-> NoError]
  ELSE LET s == ScanUserRow(rows[i])
       IN  IF s.err # NoError THEN [rows |-> <<>>, err |-> s.err]
           ELSE ScanUserRows(rows, i + 1, Append(acc, s.user))

GetUsersSQL == "SELECT DISTINCT u.id, u.username, u.email, u.user_type, u.nickname, ut.permission_bitfield::text, COUNT(m.id) as message_count FROM public.users u LEFT JOIN public.user_types ut ON ut.type_key = u.user_type LEFT JOIN public.messages m ON m.user_id = u.id GROUP BY u.id, u.username, u.email, u.user_type, u.nickname, ut.permission_bitfield ORDER BY u.id"

\* the outcome of queries.GetUsers when the database returns the rows in this order
queries_GetUsers(ordered) == ScanUserRows(ordered, 1, <<>>)

(* ---------------------------------------------------------------------- *)
(* handlers: GET /users                                                    *)
(* ---------------------------------------------------------------------- *)
\* pgtype.Text to the *string of UserResponse
NicknamePtr(t) == IF t.Valid THEN StringPtr(t.String) ELSE nil

\* UserResponse as JSON: nickname has omitempty, so a nil pointer leaves the member out
UserResponse(id, username, email, userType, nickname, messageCount) ==
  [id |-> id, username |-> username, email |-> email, userType |-> userType,
   nickname |-> IF nickname = nil THEN JsonAbsent ELSE JsonStr(Deref(nickname)),
   message_count |-> messageCount]

GetUsersResponse(userRows) ==
  [ i \in 1..Len(userRows) |->
      UserResponse(userRows[i].ID, userRows[i].Username, userRows[i].Email,
                   userRows[i].UserType, NicknamePtr(userRows[i].Nickname),
                   userRows[i].MessageCount) ]

\* the answer of GET /users when the database returns the rows in this order
GetUsersAnswer(ordered) ==
  LET r == queries_GetUsers(ordered)
  IN  IF r.err # NoError
      THEN [status |-> StatusBadRequest, error |-> "Failed to retrieve users: " \o r.err,
            body |-> <<>>]
      ELSE [status |-> StatusOK, error |-> NoError, body |-> GetUsersResponse(r.rows)]

\* every answer GET /users can give in the current state
GetUsersAnswers == { GetUsersAnswer(ordered) : ordered \in OrderById(GetUsersResultSet) }

GetUsers ==
  /\ nreq < MaxRequests
  /\ \E ordered \in OrderById(GetUsersResultSet) :
       /\ resp' = GetUsersAnswer(ordered)
       /\ open_conns' = DataAccess(queries_GetUsers(ordered).err).open
       /\ conn_log' = DataAccess(queries_GetUsers(ordered).err).log
  /\ req' = Request("GET /users", <<>>, NoBody)
  /\ calls' = <<"queries.GetUsers">>
  /\ stmts' = <<"SELECT public.users">>
  /\ nreq' = nreq + 1
  /\ UNCHANGED <<users, user_types, messages, users_id_seq, messages_id_seq, now, inflight>>

(* ---------------------------------------------------------------------- *)
(* queries: statement arguments and the bitfield lookup                    *)
(* ---------------------------------------------------------------------- *)
\* a positional argument as pgx sends it
ArgText(s) == [type |-> "text", null |-> FALSE, str |-> s, int |-> 0]

ArgNull == [type |-> "text", null |-> TRUE, str |-> "", int |-> 0]

ArgInt(n) == [type |-> "int4", null |-> FALSE, str |-> "", int |-> n]

\* a pgtype.Text argument
ArgPgText(t) == IF EncodeText(t) = NULL THEN ArgNull ELSE ArgText(EncodeText(t)[1])

\* the column value an argument stores
ArgColumn(a) == IF a.null THEN NULL ELSE SqlVal(a.str)

\* the statements a data-access function sent, by kind
StatementKinds(sent) == [i \in 1..Len(sent) |-> sent[i].kind]

LookupBitfieldSQL == "SELECT permission_bitfield::text FROM public.user_types WHERE type_key = $1"

\* SELECT permission_bitfield::text FROM user_types WHERE type_key = $1, read with
\* QueryRow(...).Scan: no row is ErrNoRows; of several rows the first one the database
\* happens to return is scanned
LookupBitfield(userType) ==
  LET match == {t \in user_types : t.type_key = userType}
  IN  IF match = {} THEN {[err |-> ErrNoRows, bitfield |-> ""]}
      ELSE {[err |-> NoError, bitfield |-> t.permission_bitfield] : t \in match}

\* mutation: username carries no UNIQUE constraint
UniqueViolation_EmailOnly(r, others) ==
  IF \E o \in others : o.email = r.email THEN ErrUniqueEmail ELSE NoError

\* UNIQUE (username), UNIQUE (email) of public.users, checked for row r against the others
UniqueViolation(r, others) ==
  IF \E o \in others : o.username = r.username THEN ErrUniqueUsername
  ELSE IF \E o \in others : o.email = r.email THEN ErrUniqueEmail
  ELSE NoError

(* ---------------------------------------------------------------------- *)
(* queries: CreateUser                                                     *)
(* ---------------------------------------------------------------------- *)
CreateUserParams(username, email, userType, nickname) ==
  [Username |-> username, Email |-> email, UserType |-> userType, Nickname |-> nickname,
   MessageCount |-> 0]

\* mutation: the nickname argument is always valid
CreateNickname_AlwaysValid(p) == IF p # nil THEN PgText(Deref(p), TRUE) ELSE PgText("", TRUE)

\* if params.Nickname != nil && *params.Nickname != "" { Valid: true } else { Valid: false }
CreateNickname(p) ==
  IF p # nil /\ Deref(p) # "" THEN PgText(Deref(p), TRUE) ELSE PgText("", FALSE)

InsertUserSQL == "INSERT INTO public.users (username, email, user_type, nickname) VALUES ($1, $2, $3, $4) RETURNING id, username, email, user_type, nickname, message_count"

\* mutation: the INSERT and the lookup run in one transaction, rolled back when the lookup fails
queries_CreateUser_RollsBack(params, lookup) ==
  LET nickname == CreateNickname(params.Nickname)
      args == <<ArgText(params.Username), ArgText(params.Email), ArgText(params.UserType),
                ArgPgText(nickname)>>
      row == [id |-> users_id_seq + 1, username |-> args[1].str, email |-> args[2].str,
              nickname |-> ArgColumn(args[4]), user_type |-> args[3].str,
              message_count |-> DefaultMessageCount]
      insertErr == UniqueViolation(row, users)
      insert == [kind |-> "INSERT public.users", sql |-> InsertUserSQL, args |-> args]
      select == [kind |-> "SELECT public.user_types", sql |-> LookupBitfieldSQL, args |-> <<ArgText(row.user_type)>>]
      user == [ID |-> row.id, Username |-> row.username, Email |-> row.email,
               UserType |-> row.user_type, Nickname |-> ScanText(row.nickname),
               PermissionBitfield |-> "", MessageCount |-> row.message_count]
  IN  IF insertErr # NoError
      THEN [user |-> ZeroUserRow, err |-> insertErr, users |-> users,
            users_id_seq |-> users_id_seq + 1, stmts |-> <<insert>>]
      ELSE IF lookup.err # NoError
      THEN [user |-> ZeroUserRow, err |-> lookup.err, users |-> users,
            users_id_seq |-> users_id_seq + 1, stmts |-> <<insert, select>>]
      ELSE [user |-> [user EXCEPT !.PermissionBitfield = lookup.bitfield, !.MessageCount = 0],
            err |-> NoError, users |-> users \cup {row},
            users_id_seq |-> users_id_seq + 1, stmts |-> <<insert, select>>]

\* queries.CreateUser; lookup is the outcome of the bitfield SELECT for the new user_type.
\* The id default takes the next sequence value whether or not the INSERT succeeds.
queries_CreateUser(params, lookup) ==
  LET nickname == CreateNickname(params.Nickname)
      args == <<ArgText(params.Username), ArgText(params.Email), ArgText(params.UserType),
                ArgPgText(nickname)>>
      row == [id |-> users_id_seq + 1, username |-> args[1].str, email |-> args[2].str,
              nickname |-> ArgColumn(args[4]), user_type |-> args[3].str,
              message_count |-> DefaultMessageCount]
      insertErr == UniqueViolation(row, users)
      insert == [kind |-> "INSERT public.users", sql |-> InsertUserSQL, args |-> args]
      select == [kind |-> "SELECT public.user_types", sql |-> LookupBitfieldSQL, args |-> <<ArgText(row.user_type)>>]
      user == [ID |-> row.id, Username |-> row.username, Email |-> row.email,
               UserType |-> row.user_type, Nickname |-> ScanText(row.nickname),
               PermissionBitfield |-> "", MessageCount |-> row.message_count]
  IN  IF insertErr # NoError
      THEN [user |-> ZeroUserRow, err |-> insertErr, users |-> users,
            users_id_seq |-> users_id_seq + 1, stmts |-> <<insert>>]
      ELSE IF lookup.err # NoError
      THEN [user |-> ZeroUserRow, err |-> lookup.err, users |-> users \cup {row},
            users_id_seq |-> users_id_seq + 1, stmts |-> <<insert, select>>]
      ELSE [user |-> [user EXCEPT !.PermissionBitfield = lookup.bitfield, !.MessageCount = 0],
            err |-> NoError, users |-> users \cup {row},
            users_id_seq |-> users_id_seq + 1, stmts |-> <<insert, select>>]

(* ---------------------------------------------------------------------- *)
(* handlers: POST /users                                                   *)
(* ---------------------------------------------------------------------- *)
ErrMalformedJSON == "unexpected EOF"

\* the message of one validator.FieldError of CreateUserRequest
RequiredFieldError(field) ==
  "Key: 'CreateUserRequest." \o field \o "' Error:Field validation for '" \o field
    \o "' failed on the 'required' tag"

\* validator.ValidationErrors.Error(): one line per failing field, in struct order
RECURSIVE ValidationErrorsText(_)
ValidationErrorsText(fields) ==
  IF Len(fields) = 0 THEN ""
  ELSE IF Len(fields) = 1 THEN RequiredFieldError(fields[1])
  ELSE RequiredFieldError(fields[1]) \o "\n" \o ValidationErrorsText(Tail(fields))

\* the fields of CreateUserRequest tagged binding:"required" that hold the zero value
RequiredFailures(r) ==
  (IF r.Username = "" THEN <<"Username">> ELSE <<>>)
    \o (IF r.Email = "" THEN <<"Email">> ELSE <<>>)
    \o (IF r.UserType = "" THEN <<"UserType">> ELSE <<>>)

\* c.ShouldBindJSON(&req) for CreateUserRequest: decode, then validate the binding tags
BindCreateUserRequest(body) ==
  LET r == [Username |-> BindString(body.username), Email |-> BindString(body.email),
            UserType |-> BindString(body.user_type), Nickname |-> BindStringPtr(body.nickname)]
  IN  IF body.malformed THEN [err |-> ErrMalformedJSON, req |-> r]
      ELSE [err |-> ValidationErrorsText(RequiredFailures(r)), req |-> r]

ErrorResponse(status, message) == [status |-> status, error |-> message, body |-> <<>>]

\* the handler up to the call of queries.CreateUser: the 400 it answers, or NoResponse
CreateUserValidate(bound) ==
  IF bound.err # NoError
  THEN ErrorResponse(StatusBadRequest, "Invalid request body: " \o bound.err)
  ELSE IF bound.req.Username = "" THEN ErrorResponse(StatusBadRequest, "Username is required")
  ELSE IF bound.req.Email = "" THEN ErrorResponse(StatusBadRequest, "Email is required")
  ELSE IF bound.req.UserType = ""
  THEN ErrorResponse(StatusBadRequest, "User type is required")
  ELSE NoResponse

\* the response built from the created row: MessageCount is left at its zero value
CreateUserResponse(user) ==
  UserResponse(user.ID, user.Username, user.Email, user.UserType,
               NicknamePtr(user.Nickname), 0)

CreateUser(body) ==
  LET bound == BindCreateUserRequest(body)
      invalid == CreateUserValidate(bound)
      params == CreateUserParams(bound.req.Username, bound.req.Email, bound.req.UserType,
                                 bound.req.Nickname)
  IN  /\ nreq < MaxRequests
      /\ req' = Request("POST /users", <<>>, body)
      /\ nreq' = nreq + 1
      /\ IF invalid # NoResponse
         THEN /\ resp' = invalid
              /\ calls' = <<>>
              /\ stmts' = <<>>
              /\ open_conns' = NoDataAccess.open
              /\ conn_log' = NoDataAccess.log
              /\ UNCHANGED <<users, users_id_seq>>
         ELSE \E lookup \in LookupBitfield(params.UserType) :
                LET r == queries_CreateUser(params, lookup)
                IN  /\ users' = r.users
                    /\ users_id_seq' = r.users_id_seq
                    /\ calls' = <<"queries.CreateUser">>
                    /\ stmts' = StatementKinds(r.stmts)
                    /\ open_conns' = DataAccess(r.err).open
                    /\ conn_log' = DataAccess(r.err).log
                    /\ resp' = IF r.err # NoError
                               THEN ErrorResponse(StatusBadRequest,
                                                  "Failed to create user: " \o r.err)
                               ELSE [status |-> StatusCreated, error |-> NoError,
                                     body |-> <<CreateUserResponse(r.user)>>]
      /\ UNCHANGED <<user_types, messages, messages_id_seq, now, inflight>>

(* ---------------------------------------------------------------------- *)
(* queries: UpdateUser                                                     *)
(* ---------------------------------------------------------------------- *)
UpdateUserParams(username, email, userType, nickname) ==
  [Username |-> username, Email |-> email, UserType |-> userType, Nickname |-> nickname]

\* mutation: the empty string is stored as a value instead of NULL
UpdateNickname_KeepsEmpty(p) == PgText(Deref(p), TRUE)

\* if *params.Nickname != "" { Valid: true } else { Valid: false }
UpdateNickname(p) == IF Deref(p) # "" THEN PgText(Deref(p), TRUE) ELSE PgText("", FALSE)

\* mutation: argCount is not advanced
AppendSetPart_FixedPlaceholder(b, column, arg) ==
  [setParts |-> Append(b.setParts, [column |-> column, placeholder |-> b.argCount]),
   args |-> Append(b.args, arg),
   argCount |-> b.argCount]

\* setParts = append(setParts, fmt.Sprintf("<column> = $%d", argCount));
\* args = append(args, <value>); argCount++
AppendSetPart(b, column, arg) ==
  [setParts |-> Append(b.setParts, [column |-> column, placeholder |-> b.argCount]),
   args |-> Append(b.args, arg),
   argCount |-> b.argCount + 1]

\* mutation: a nil nickname is written as NULL instead of being skipped
BuildSetParts_NilNicknameClears(params) ==
  LET b0 == [setParts |-> <<>>, args |-> <<>>, argCount |-> 1]
      b1 == IF params.Username # nil
            THEN AppendSetPart(b0, "username", ArgText(Deref(params.Username))) ELSE b0
      b2 == IF params.Email # nil
            THEN AppendSetPart(b1, "email", ArgText(Deref(params.Email))) ELSE b1
      b3 == IF params.UserType # nil
            THEN AppendSetPart(b2, "user_type", ArgText(Deref(params.UserType))) ELSE b2
  IN  IF params.Nickname # nil
      THEN AppendSetPart(b3, "nickname", ArgPgText(PgText(Deref(params.Nickname), TRUE)))
      ELSE AppendSetPart(b3, "nickname", ArgNull)

\* the SET clause builder: username, email, user_type, nickname, each only when present
BuildSetParts(params) ==
  LET b0 == [setParts |-> <<>>, args |-> <<>>, argCount |-> 1]
      b1 == IF params.Username # nil
            THEN AppendSetPart(b0, "username", ArgText(Deref(params.Username))) ELSE b0
      b2 == IF params.Email # nil
            THEN AppendSetPart(b1, "email", ArgText(Deref(params.Email))) ELSE b1
      b3 == IF params.UserType # nil
            THEN AppendSetPart(b2, "user_type", ArgText(Deref(params.UserType))) ELSE b2
      b4 == IF params.Nickname # nil
            THEN AppendSetPart(b3, "nickname", ArgPgText(UpdateNickname(params.Nickname)))
            ELSE b3
  IN  b4

SetPartText(part) == part.column \o " = $" \o ToString(part.placeholder)

\* strings.Join(setParts, ", ")
RECURSIVE JoinSetParts(_)
JoinSetParts(parts) ==
  IF Len(parts) = 0 THEN ""
  ELSE IF Len(parts) = 1 THEN SetPartText(parts[1])
  ELSE SetPartText(parts[1]) \o ", " \o JoinSetParts(Tail(parts))

UpdateUserSQL(setParts, argCount) ==
  "UPDATE public.users SET " \o JoinSetParts(setParts) \o " WHERE id = $" \o ToString(argCount)
    \o " RETURNING id, username, email, user_type, nickname"

\* mutation: only the first assignment of the SET clause is applied
ApplySetParts_FirstOnly(row, setParts, args) ==
  IF Len(setParts) = 0 THEN row
  ELSE LET part == setParts[1]
           arg == args[part.placeholder]
           value == IF part.column = "nickname" THEN ArgColumn(arg) ELSE arg.str
       IN  [row EXCEPT ![part.column] = value]

\* the row after the assignments of the SET clause, each taking its placeholder's argument
RECURSIVE ApplySetParts(_, _, _)
ApplySetParts(row, setParts, args) ==
  IF Len(setParts) = 0 THEN row
  ELSE LET part == setParts[1]
           arg == args[part.placeholder]
           value == IF part.column = "nickname" THEN ArgColumn(arg) ELSE arg.str
       IN  ApplySetParts([row EXCEPT ![part.column] = value], Tail(setParts), args)

\* the database executing UPDATE public.users SET ... WHERE id = $n RETURNING ...
ExecUpdateUser(setParts, args, wherePlaceholder) ==
  LET target == {u \in users : u.id = args[wherePlaceholder].int}
  IN  IF target = {} THEN [err |-> ErrNoRows, users |-> users, row |-> <<>>]
      ELSE LET old == CHOOSE u \in target : TRUE
               new == ApplySetParts(old, setParts, args)
               violation == UniqueViolation(new, users \ {old})
           IN  IF violation # NoError THEN [err |-> violation, users |-> users, row |-> <<>>]
               ELSE [err |-> NoError, users |-> (users \ {old}) \cup {new}, row |-> <<new>>]

\* mutation: the UPDATE and the lookup run in one transaction, rolled back when the lookup fails
queries_UpdateUser_RollsBack(userID, params, lookup) ==
  LET b == BuildSetParts(params)
      args == Append(b.args, ArgInt(userID))
      update == [kind |-> "UPDATE public.users", sql |-> UpdateUserSQL(b.setParts, b.argCount),
                 args |-> args]
      exec == ExecUpdateUser(b.setParts, args, b.argCount)
  IN  IF Len(b.setParts) = 0
      THEN [user |-> ZeroUserRow, err |-> "no fields to update", users |-> users,
            stmts |-> <<>>]
      ELSE IF exec.err # NoError
      THEN [user |-> ZeroUserRow, err |-> exec.err, users |-> users, stmts |-> <<update>>]
      ELSE LET row == exec.row[1]
               found == lookup[row.user_type]
               select == [kind |-> "SELECT public.user_types", sql |-> LookupBitfieldSQL, args |-> <<ArgText(row.user_type)>>]
           IN  IF found.err # NoError
               THEN [user |-> ZeroUserRow,
                     err |-> "failed to get permission bitfield: " \o found.err,
                     users |-> users, stmts |-> <<update, select>>]
               ELSE [user |-> [ID |-> row.id, Username |-> row.username, Email |-> row.email,
                               UserType |-> row.user_type, Nickname |-> ScanText(row.nickname),
                               PermissionBitfield |-> found.bitfield, MessageCount |-> 0],
                     err |-> NoError, users |-> exec.users, stmts |-> <<update, select>>]

\* queries.UpdateUser; lookup maps a user_type to the outcome of its bitfield SELECT
queries_UpdateUser(userID, params, lookup) ==
  LET b == BuildSetParts(params)
      args == Append(b.args, ArgInt(userID))
      update == [kind |-> "UPDATE public.users", sql |-> UpdateUserSQL(b.setParts, b.argCount),
                 args |-> args]
      exec == ExecUpdateUser(b.setParts, args, b.argCount)
  IN  IF Len(b.setParts) = 0
      THEN [user |-> ZeroUserRow, err |-> "no fields to update", users |-> users,
            stmts |-> <<>>]
      ELSE IF exec.err # NoError
      THEN [user |-> ZeroUserRow, err |-> exec.err, users |-> users, stmts |-> <<update>>]
      ELSE LET row == exec.row[1]
               found == lookup[row.user_type]
               select == [kind |-> "SELECT public.user_types", sql |-> LookupBitfieldSQL, args |-> <<ArgText(row.user_type)>>]
           IN  IF found.err # NoError
               THEN [user |-> ZeroUserRow,
                     err |-> "failed to get permission bitfield: " \o found.err,
                     users |-> exec.users, stmts |-> <<update, select>>]
               ELSE [user |-> [ID |-> row.id, Username |-> row.username, Email |-> row.email,
                               UserType |-> row.user_type, Nickname |-> ScanText(row.nickname),
                               PermissionBitfield |-> found.bitfield, MessageCount |-> 0],
                     err |-> NoError, users |-> exec.users, stmts |-> <<update, select>>]

\* the outcomes the bitfield SELECT can have for each of these user types
BitfieldLookups(types) ==
  { f \in [types -> UNION {LookupBitfield(t) : t \in types}] :
      \A t \in types : f[t] \in LookupBitfield(t) }

(* ---------------------------------------------------------------------- *)
(* handlers: PATCH /users/:user_id                                         *)
(* ---------------------------------------------------------------------- *)
Digits == <<"0", "1", "2", "3", "4", "5", "6", "7", "8", "9">>

IsDigit(c) == \E d \in 1..10 : Digits[d] = c

DigitValue(c) == (CHOOSE d \in 1..10 : Digits[d] = c) - 1

RECURSIVE ParseDigits(_, _)
ParseDigits(chars, acc) ==
  IF Len(chars) = 0 THEN acc
  ELSE ParseDigits(Tail(chars), acc * 10 + DigitValue(chars[1]))

\* strconv.Atoi of the path parameter, given as its characters: an optional sign and
\* at least one digit, nothing else
Atoi(chars) ==
  LET signed == Len(chars) > 0 /\ chars[1] \in {"+", "-"}
      digits == IF signed THEN Tail(chars) ELSE chars
      ok == Len(digits) > 0 /\ \A i \in 1..Len(digits) : IsDigit(digits[i])
      magnitude == IF ok THEN ParseDigits(digits, 0) ELSE 0
  IN  [err |-> IF ok THEN NoError ELSE "strconv.Atoi: parsing: invalid syntax",
       value |-> IF signed /\ chars[1] = "-" THEN 0 - magnitude ELSE magnitude]

\* c.ShouldBindJSON(&req) for UpdateUserParams: four *string fields, no binding tags
BindUpdateUserParams(body) ==
  [err |-> IF body.malformed THEN ErrMalformedJSON ELSE NoError,
   req |-> UpdateUserParams(BindStringPtr(body.username), BindStringPtr(body.email),
                            BindStringPtr(body.user_type), BindStringPtr(body.nickname))]

\* mutation: a fourth type is accepted
ValidUserTypes_Guest == <<"UTYPE_USER", "UTYPE_ADMIN", "UTYPE_MODERATOR", "UTYPE_GUEST">>

ValidUserTypes == <<"UTYPE_USER", "UTYPE_ADMIN", "UTYPE_MODERATOR">>

\* slices.Contains
Contains(list, v) == \E i \in 1..Len(list) : list[i] = v

\* mutation: the body is bound before user_id is parsed
UpdateUserValidate_BodyBeforeId(parsed, bound) ==
  IF bound.err # NoError
  THEN ErrorResponse(StatusBadRequest, "Invalid request body: " \o bound.err)
  ELSE IF parsed.err # NoError THEN ErrorResponse(StatusBadRequest, "Invalid user ID")
  ELSE IF bound.req.UserType # nil /\ ~Contains(ValidUserTypes, Deref(bound.req.UserType))
  THEN ErrorResponse(StatusBadRequest,
         "Invalid user type. Must be one of: UTYPE_USER, UTYPE_ADMIN, UTYPE_MODERATOR")
  ELSE NoResponse

\* the handler up to the call of queries.UpdateUser: the 400 it answers, or NoResponse
UpdateUserValidate(parsed, bound) ==
  IF parsed.err # NoError THEN ErrorResponse(StatusBadRequest, "Invalid user ID")
  ELSE IF bound.err # NoError
  THEN ErrorResponse(StatusBadRequest, "Invalid request body: " \o bound.err)
  ELSE IF bound.req.UserType # nil /\ ~Contains(ValidUserTypes, Deref(bound.req.UserType))
  THEN ErrorResponse(StatusBadRequest,
         "Invalid user type. Must be one of: UTYPE_USER, UTYPE_ADMIN, UTYPE_MODERATOR")
  ELSE NoResponse

\* mutation: a storage error is answered as a server fault
UpdateUserErrorResponse_ServerError(err) ==
  IF err = "user not found" THEN ErrorResponse(StatusNotFound, err)
  ELSE ErrorResponse(500, "Failed to update user: " \o err)

\* the status and message for an error returned by queries.UpdateUser
UpdateUserErrorResponse(err) ==
  IF err = "user not found" THEN ErrorResponse(StatusNotFound, err)
  ELSE ErrorResponse(StatusBadRequest, "Failed to update user: " \o err)

\* mutation: the response counts the user's messages
UpdateUserResponse_CountsMessages(user) ==
  UserResponse(user.ID, user.Username, user.Email, user.UserType,
               NicknamePtr(user.Nickname), Cardinality({m \in messages : m.user_id = user.ID}))

UpdateUserResponse(user) ==
  UserResponse(user.ID, user.Username, user.Email, user.UserType,
               NicknamePtr(user.Nickname), user.MessageCount)

UpdateUser(user_id, body) ==
  LET parsed == Atoi(user_id)
      bound == BindUpdateUserParams(body)
      invalid == UpdateUserValidate(parsed, bound)
      types == {u.user_type : u \in users}
                 \cup (IF bound.req.UserType = nil THEN {} ELSE {Deref(bound.req.UserType)})
  IN  /\ nreq < MaxRequests
      /\ req' = Request("PATCH /users/:user_id", user_id, body)
      /\ nreq' = nreq + 1
      /\ IF invalid # NoResponse
         THEN /\ resp' = invalid
              /\ calls' = <<>>
              /\ stmts' = <<>>
              /\ open_conns' = NoDataAccess.open
              /\ conn_log' = NoDataAccess.log
              /\ UNCHANGED users
         ELSE \E lookup \in BitfieldLookups(types) :
                LET r == queries_UpdateUser(parsed.value, bound.req, lookup)
                IN  /\ users' = r.users
                    /\ calls' = <<"queries.UpdateUser">>
                    /\ stmts' = StatementKinds(r.stmts)
                    /\ open_conns' = DataAccess(r.err).open
                    /\ conn_log' = DataAccess(r.err).log
                    /\ resp' = IF r.err # NoError THEN UpdateUserErrorResponse(r.err)
                               ELSE [status |-> StatusOK, error |-> NoError,
                                     body |-> <<UpdateUserResponse(r.user)>>]
      /\ UNCHANGED <<user_types, messages, users_id_seq, messages_id_seq, now, inflight>>

(* ---------------------------------------------------------------------- *)
(* queries and handlers: POST /messages                                    *)
(* ---------------------------------------------------------------------- *)
ErrForeignKey == "ERROR: insert or update on table \"messages\" violates foreign key constraint \"messages_user_id_fkey\" (SQLSTATE 23503)"

ZeroMessageRow == [ID |-> 0, UserID |-> 0, Content |-> "", CreatedAt |-> 0]

InsertMessageSQL == "INSERT INTO public.messages (user_id, content) VALUES ($1, $2) RETURNING id, user_id, content, created_at"

\* mutation: the new row takes the current sequence value, which a row already has
queries_CreateMessage_ReusesId(params, t) ==
  LET args == <<ArgInt(params.UserID), ArgText(params.Content)>>
      row == [id |-> messages_id_seq, user_id |-> args[1].int, content |-> args[2].str,
              created_at |-> t]
      insert == [kind |-> "INSERT public.messages", sql |-> InsertMessageSQL, args |-> args]
  IN  IF ~\E u \in users : u.id = row.user_id
      THEN [message |-> ZeroMessageRow, err |-> ErrForeignKey, messages |-> messages,
            messages_id_seq |-> messages_id_seq + 1, stmts |-> <<insert>>]
      ELSE [message |-> [ID |-> row.id, UserID |-> row.user_id, Content |-> row.content,
                         CreatedAt |-> row.created_at],
            err |-> NoError, messages |-> messages \cup {row},
            messages_id_seq |-> messages_id_seq + 1, stmts |-> <<insert>>]

\* mutation: the INSERT is not checked against users
queries_CreateMessage_NoForeignKey(params, t) ==
  LET args == <<ArgInt(params.UserID), ArgText(params.Content)>>
      row == [id |-> messages_id_seq + 1, user_id |-> args[1].int, content |-> args[2].str,
              created_at |-> t]
      insert == [kind |-> "INSERT public.messages", sql |-> InsertMessageSQL, args |-> args]
  IN  [message |-> [ID |-> row.id, UserID |-> row.user_id, Content |-> row.content,
                    CreatedAt |-> row.created_at],
       err |-> NoError, messages |-> messages \cup {row},
       messages_id_seq |-> messages_id_seq + 1, stmts |-> <<insert>>]

\* queries.CreateMessage at time t: user_id REFERENCES public.users(id); the id default
\* takes the next sequence value whether or not the INSERT succeeds
queries_CreateMessage(params, t) ==
  LET args == <<ArgInt(params.UserID), ArgText(params.Content)>>
      row == [id |-> messages_id_seq + 1, user_id |-> args[1].int, content |-> args[2].str,
              created_at |-> t]
      insert == [kind |-> "INSERT public.messages", sql |-> InsertMessageSQL, args |-> args]
  IN  IF ~\E u \in users : u.id = row.user_id
      THEN [message |-> ZeroMessageRow, err |-> ErrForeignKey, messages |-> messages,
            messages_id_seq |-> messages_id_seq + 1, stmts |-> <<insert>>]
      ELSE [message |-> [ID |-> row.id, UserID |-> row.user_id, Content |-> row.content,
                         CreatedAt |-> row.created_at],
            err |-> NoError, messages |-> messages \cup {row},
            messages_id_seq |-> messages_id_seq + 1, stmts |-> <<insert>>]

MessageRequiredError(field) ==
  "Key: 'CreateMessageRequest." \o field \o "' Error:Field validation for '" \o field
    \o "' failed on the 'required' tag"

\* c.ShouldBindJSON(&req) for CreateMessageRequest: UserID int and Content string are
\* both tagged binding:"required", which rejects the zero value and nothing else
BindCreateMessageRequest(body) ==
  LET r == [UserID |-> BindInt(body.user_id), Content |-> BindString(body.content)]
      e1 == IF r.UserID = 0 THEN <<MessageRequiredError("UserID")>> ELSE <<>>
      e2 == IF r.Content = "" THEN <<MessageRequiredError("Content")>> ELSE <<>>
      errs == e1 \o e2
  IN  IF body.malformed THEN [err |-> ErrMalformedJSON, req |-> r]
      ELSE [err |-> IF Len(errs) = 0 THEN NoError
                    ELSE IF Len(errs) = 1 THEN errs[1]
                    ELSE errs[1] \o "\n" \o errs[2],
            req |-> r]

\* created_at is kept in ticks, this many to the second
TicksPerSecond == 2

\* CreatedAt.Time.Format("2006-01-02T15:04:05Z07:00"): the layout has no fraction of a
\* second, so the text is the timestamp cut to whole seconds
FormatTime(t) == t \div TicksPerSecond

\* MessageResponse as JSON
MessageResponse(m) ==
  [id |-> m.ID, user_id |-> m.UserID, content |-> m.Content,
   created_at |-> FormatTime(m.CreatedAt)]

CreateMessage(body) ==
  LET bound == BindCreateMessageRequest(body)
      params == [UserID |-> bound.req.UserID, Content |-> bound.req.Content]
  IN  /\ nreq < MaxRequests
      /\ req' = Request("POST /messages", <<>>, body)
      /\ nreq' = nreq + 1
      /\ IF bound.err # NoError
         THEN /\ resp' = ErrorResponse(StatusBadRequest, "Invalid request body: " \o bound.err)
              /\ calls' = <<>>
              /\ stmts' = <<>>
              /\ open_conns' = NoDataAccess.open
              /\ conn_log' = NoDataAccess.log
              /\ UNCHANGED <<messages, messages_id_seq, now>>
         ELSE \E t \in {now, now + 1} :
                LET r == queries_CreateMessage(params, t)
                IN  /\ messages' = r.messages
                    /\ messages_id_seq' = r.messages_id_seq
                    /\ now' = t
                    /\ calls' = <<"queries.CreateMessage">>
                    /\ stmts' = StatementKinds(r.stmts)
                    /\ open_conns' = DataAccess(r.err).open
                    /\ conn_log' = DataAccess(r.err).log
                    /\ resp' = IF r.err # NoError
                               THEN ErrorResponse(StatusBadRequest,
                                                  "Failed to create message: " \o r.err)
                               ELSE [status |-> StatusCreated, error |-> NoError,
                                     body |-> <<MessageResponse(r.message)>>]
      /\ UNCHANGED <<users, user_types, users_id_seq, inflight>>

(* ---------------------------------------------------------------------- *)
(* queries and handlers: GET /messages, GET /users/:user_id/messages       *)
(* ---------------------------------------------------------------------- *)
\* encoding/json of a Go slice: a nil slice is null, any other slice an array
JsonArray(isNil, items) == IF isNil THEN JsonNull ELSE <<"array", items>>

\* rows.Scan of one row of messages
ScanMessageRow(m) ==
  [ID |-> m.id, UserID |-> m.user_id, Content |-> m.content, CreatedAt |-> m.created_at]

\* SELECT id, user_id, content, created_at FROM public.messages: no ORDER BY, the rows
\* come in whatever order the database picks, so the result is kept as the set of its
\* rows; messages starts as []GetMessagesQueryRow{} and is never nil on success
queries_GetMessages ==
  [isNil |-> FALSE, rows |-> {ScanMessageRow(m) : m \in messages}, err |-> NoError]

\* the handler: messages starts as []MessageResponse{}, one append per row
GetMessagesAnswer(r) ==
  IF r.err # NoError
  THEN ErrorResponse(StatusBadRequest, "Failed to retrieve messages: " \o r.err)
  ELSE [status |-> StatusOK, error |-> NoError,
        body |-> <<[messages |-> JsonArray(FALSE, {MessageResponse(row) : row \in r.rows})]>>]

GetMessages ==
  LET r == queries_GetMessages
  IN  /\ nreq < MaxRequests
      /\ req' = Request("GET /messages", <<>>, NoBody)
      /\ resp' = GetMessagesAnswer(r)
      /\ calls' = <<"queries.GetMessages">>
      /\ stmts' = <<"SELECT public.messages">>
      /\ open_conns' = DataAccess(r.err).open
      /\ conn_log' = DataAccess(r.err).log
      /\ nreq' = nreq + 1
      /\ UNCHANGED <<users, user_types, messages, users_id_seq, messages_id_seq, now, inflight>>

\* WHERE user_id = $1
MessagesOfUser(userID) == {m \in messages : m.user_id = userID}

MaxCreatedAt(S) == CHOOSE t \in {m.created_at : m \in S} : \A m \in S : m.created_at <= t

\* mutation: the rows come in any order
RECURSIVE OrderByCreatedAtDesc_Unordered(_)
OrderByCreatedAtDesc_Unordered(S) ==
  IF S = {} THEN {<<>>}
  ELSE UNION { { <<m>> \o t : t \in OrderByCreatedAtDesc_Unordered(S \ {m}) } : m \in S }

\* ORDER BY created_at DESC: every arrangement with descending created_at; rows of one
\* created_at come in any order
RECURSIVE OrderByCreatedAtDesc(_)
OrderByCreatedAtDesc(S) ==
  IF S = {} THEN {<<>>}
  ELSE UNION { { <<m>> \o t : t \in OrderByCreatedAtDesc(S \ {m}) }
               : m \in {x \in S : x.created_at = MaxCreatedAt(S)} }

\* queries.GetMessagesByUser when the database returns the rows in this order; messages
\* starts as []GetMessagesQueryRow{} and is never nil on success
queries_GetMessagesByUser(ordered) ==
  [isNil |-> FALSE, rows |-> [i \in 1..Len(ordered) |-> ScanMessageRow(ordered[i])],
   err |-> NoError]

\* mutation: var messages []MessageResponse, a nil slice until the first append
GetMessagesByUserAnswer_NilSlice(r) ==
  IF r.err # NoError
  THEN ErrorResponse(StatusBadRequest, "Failed to retrieve messages: " \o r.err)
  ELSE [status |-> StatusOK, error |-> NoError,
        body |-> <<[messages |->
                      JsonArray(Len(r.rows) = 0,
                                [i \in 1..Len(r.rows) |-> MessageResponse(r.rows[i])])]>>]

\* the handler: messages starts as []MessageResponse{}, one append per row, in order
GetMessagesByUserAnswer(r) ==
  IF r.err # NoError
  THEN ErrorResponse(StatusBadRequest, "Failed to retrieve messages: " \o r.err)
  ELSE [status |-> StatusOK, error |-> NoError,
        body |-> <<[messages |->
                      JsonArray(FALSE, [i \in 1..Len(r.rows) |-> MessageResponse(r.rows[i])])]>>]

GetMessagesByUser(user_id) ==
  LET parsed == Atoi(user_id)
  IN  /\ nreq < MaxRequests
      /\ req' = Request("GET /users/:user_id/messages", user_id, NoBody)
      /\ nreq' = nreq + 1
      /\ IF parsed.err # NoError
         THEN /\ resp' = ErrorResponse(StatusBadRequest, "Invalid user ID")
              /\ calls' = <<>>
              /\ stmts' = <<>>
              /\ open_conns' = NoDataAccess.open
              /\ conn_log' = NoDataAccess.log
         ELSE \E ordered \in OrderByCreatedAtDesc(MessagesOfUser(parsed.value)) :
                LET r == queries_GetMessagesByUser(ordered)
                IN  /\ resp' = GetMessagesByUserAnswer(r)
                    /\ calls' = <<"queries.GetMessagesByUser">>
                    /\ stmts' = <<"SELECT public.messages">>
                    /\ open_conns' = DataAccess(r.err).open
                    /\ conn_log' = DataAccess(r.err).log
      /\ UNCHANGED <<users, user_types, messages, users_id_seq, messages_id_seq, now, inflight>>

(* ---------------------------------------------------------------------- *)
(* Collaborator operations on the schema                                   *)
(* ---------------------------------------------------------------------- *)
\* INSERT INTO public.user_types: type_key carries no UNIQUE constraint, so a key may
\* be given a second row, as the seed data does for UTYPE_ADMIN
InsertUserType(type_key, permission_bitfield) ==
  /\ nreq < MaxRequests
  /\ user_types' = user_types \cup
       {[id |-> Cardinality(user_types) + 1, type_key |-> type_key,
         permission_bitfield |-> permission_bitfield]}
  /\ req' = NoRequest
  /\ resp' = NoResponse
  /\ calls' = <<>>
  /\ stmts' = <<>>
  /\ conn_log' = <<>>
  /\ nreq' = nreq + 1
  /\ UNCHANGED <<users, messages, users_id_seq, messages_id_seq, now, open_conns, inflight>>

\* mutation: the messages of the deleted users stay
DeleteUsers_NoCascade(ids) ==
  /\ nreq < MaxRequests
  /\ users' = {u \in users : u.id \notin ids}
  /\ messages' = messages
  /\ req' = NoRequest
  /\ resp' = NoResponse
  /\ calls' = <<>>
  /\ stmts' = <<>>
  /\ conn_log' = <<>>
  /\ nreq' = nreq + 1
  /\ UNCHANGED <<user_types, users_id_seq, messages_id_seq, now, open_conns, inflight>>

\* DELETE FROM public.users WHERE id IN (ids): messages.user_id REFERENCES
\* public.users(id) ON DELETE CASCADE removes the messages of the deleted users
DeleteUsers(ids) ==
  /\ nreq < MaxRequests
  /\ users' = {u \in users : u.id \notin ids}
  /\ messages' = {m \in messages : m.user_id \notin ids}
  /\ req' = NoRequest
  /\ resp' = NoResponse
  /\ calls' = <<>>
  /\ stmts' = <<>>
  /\ conn_log' = <<>>
  /\ nreq' = nreq + 1
  /\ UNCHANGED <<user_types, users_id_seq, messages_id_seq, now, open_conns, inflight>>

(* ---------------------------------------------------------------------- *)
(* Requests                                                                *)
(* ---------------------------------------------------------------------- *)
CreateUserBodies ==
  { Body(u, e, t, n) :
      u \in {JsonAbsent, JsonStr(""), JsonStr("zed")},
      e \in {JsonAbsent, JsonStr("zed@x.com")},
      t \in {JsonStr(""), JsonStr("UTYPE_USER"), JsonStr("UTYPE_GUEST")},
      n \in {JsonAbsent, JsonStr(""), JsonStr("nick")} }
    \cup {MalformedBody}

UpdateUserBodies ==
  { Body(u, e, t, n) :
      u \in {JsonAbsent, JsonStr("Jon"), JsonStr("zed")},
      e \in {JsonAbsent, JsonStr("zed@x.com")},
      t \in {JsonAbsent, JsonStr("UTYPE_MODERATOR"), JsonStr("UTYPE_GUEST")},
      n \in {JsonAbsent, JsonNull, JsonStr(""), JsonStr("nick")} }
    \cup {MalformedBody}

\* PATCH requests: every body for user 1 and for id 4, which exists only once a user
\* has been created; a few bodies for a path parameter that is not a number
UpdateUserRequests ==
  ({<<"1">>, <<"4">>} \X UpdateUserBodies)
    \cup ({<<"x">>} \X {MalformedBody, Body(JsonStr("zed"), JsonAbsent, JsonAbsent, JsonAbsent),
                         Body(JsonAbsent, JsonAbsent, JsonStr("UTYPE_GUEST"), JsonAbsent)})

CreateMessageBodies ==
  { MessageBody(u, c) : u \in {JsonNum(0), JsonNum(0 - 1), JsonNum(1), JsonNum(4)},
                        c \in {JsonAbsent, JsonStr("hi")} }
    \cup {MalformedBody}

UserTypeRows == {<<"UTYPE_ADMIN", "11000000">>, <<"UTYPE_GUEST", "00000001">>}

\* the :user_id of GET /users/:user_id/messages: users with one and with two seed
\* messages, an id no seed user has, and a path parameter that is not a number
MessagesByUserIds == {<<"1">>, <<"2">>, <<"4">>, <<"x">>}

\* the id sets of the collaborator's DELETE: one user, an id that may not exist, all seed users
DeletedIdSets == {{1}, {2}, {4}, {1, 2, 3}}

Next ==
  \/ GetUsers
  \/ \E body \in CreateUserBodies : CreateUser(body)
  \/ \E r \in UpdateUserRequests : UpdateUser(r[1], r[2])
  \/ \E body \in CreateMessageBodies : CreateMessage(body)
  \/ \E t \in UserTypeRows : InsertUserType(t[1], t[2])
  \/ GetMessages
  \/ \E user_id \in MessagesByUserIds : GetMessagesByUser(user_id)
  \/ \E ids \in DeletedIdSets : DeleteUsers(ids)

Spec == Init /\ [][Next]_vars

(* ---------------------------------------------------------------------- *)
(* The statements of one partial update                                    *)
(* ---------------------------------------------------------------------- *)
\* PATCH bodies with every subset of the four fields present
SetClauseBodies ==
  { Body(u, e, t, n) :
      u \in {JsonAbsent, JsonStr("Jon"), JsonStr("zed")},
      e \in {JsonAbsent, JsonStr("zed@x.com")},
      t \in {JsonAbsent, JsonStr("UTYPE_USER"), JsonStr("UTYPE_MODERATOR")},
      n \in {JsonAbsent, JsonNull, JsonStr(""), JsonStr("nick")} }

\* the seed data and one PATCH request that has arrived
SetClauseInit ==
  /\ users = SeedUsers
  /\ user_types = SeedUserTypes
  /\ messages = SeedMessages
  /\ users_id_seq = 3
  /\ messages_id_seq = 5
  /\ now = 0
  /\ req \in { Request("PATCH /users/:user_id", id, body) :
                 id \in {<<"1">>, <<"2">>, <<"4">>}, body \in SetClauseBodies }
  /\ resp = NoResponse
  /\ calls = <<>>
  /\ stmts = <<>>
  /\ nreq = 0
  /\ open_conns = 0
  /\ conn_log = <<>>
  /\ inflight = <<>>

\* the handler of PATCH /users/:user_id on the request that has arrived; stmts takes the
\* statements queries.UpdateUser sent, with their text and arguments
UpdateUserStatements ==
  LET parsed == Atoi(req.user_id)
      bound == BindUpdateUserParams(req.body)
      types == {u.user_type : u \in users}
                 \cup (IF bound.req.UserType = nil THEN {} ELSE {Deref(bound.req.UserType)})
  IN  /\ nreq = 0
      /\ nreq' = 1
      /\ UpdateUserValidate(parsed, bound) = NoResponse
      /\ \E lookup \in BitfieldLookups(types) :
           LET r == queries_UpdateUser(parsed.value, bound.req, lookup)
           IN  /\ users' = r.users
               /\ calls' = <<"queries.UpdateUser">>
               /\ stmts' = r.stmts
               /\ open_conns' = DataAccess(r.err).open
               /\ conn_log' = DataAccess(r.err).log
               /\ resp' = IF r.err # NoError THEN UpdateUserErrorResponse(r.err)
                          ELSE [status |-> StatusOK, error |-> NoError,
                                body |-> <<UpdateUserResponse(r.user)>>]
      /\ UNCHANGED <<user_types, messages, users_id_seq, messages_id_seq, now, req, inflight>>

SetClauseNext == UpdateUserStatements

SetClauseSpec == SetClauseInit /\ [][SetClauseNext]_vars

(* ---------------------------------------------------------------------- *)
(* Concurrent requests                                                     *)
(* ---------------------------------------------------------------------- *)
\* gin serves every request on its own goroutine and the handlers share nothing in the
\* process, so concurrent requests meet only in the database.  Each statement runs in
\* its own implicit transaction.

NoStatement == [kind |-> "", setParts |-> <<>>, args |-> <<>>, where |-> 0]

\* the statement that writes, as the handler and its data-access function build it
\* from the request, or NoStatement when the request is answered before one is sent
MutatingStatement(request) ==
  IF request.route = "POST /users"
  THEN LET bound == BindCreateUserRequest(request.body)
           params == CreateUserParams(bound.req.Username, bound.req.Email,
                                      bound.req.UserType, bound.req.Nickname)
       IN  IF CreateUserValidate(bound) # NoResponse THEN NoStatement
           ELSE [kind |-> "INSERT public.users", setParts |-> <<>>,
                 args |-> <<ArgText(params.Username), ArgText(params.Email),
                            ArgText(params.UserType),
                            ArgPgText(CreateNickname(params.Nickname))>>,
                 where |-> 0]
  ELSE IF request.route = "PATCH /users/:user_id"
  THEN LET parsed == Atoi(request.user_id)
           bound == BindUpdateUserParams(request.body)
           b == BuildSetParts(bound.req)
       IN  IF UpdateUserValidate(parsed, bound) # NoResponse \/ Len(b.setParts) = 0
           THEN NoStatement
           ELSE [kind |-> "UPDATE public.users", setParts |-> b.setParts,
                 args |-> Append(b.args, ArgInt(parsed.value)), where |-> b.argCount]
  ELSE LET bound == BindCreateMessageRequest(request.body)
       IN  IF bound.err # NoError THEN NoStatement
           ELSE [kind |-> "INSERT public.messages", setParts |-> <<>>,
                 args |-> <<ArgInt(bound.req.UserID), ArgText(bound.req.Content)>>,
                 where |-> 0]

\* the answer to a request that sends no statement
EarlyAnswer(request) ==
  IF request.route = "POST /users"
  THEN CreateUserValidate(BindCreateUserRequest(request.body))
  ELSE IF request.route = "PATCH /users/:user_id"
  THEN LET invalid == UpdateUserValidate(Atoi(request.user_id),
                                         BindUpdateUserParams(request.body))
       IN  IF invalid # NoResponse THEN invalid
           ELSE UpdateUserErrorResponse("no fields to update")
  ELSE ErrorResponse(StatusBadRequest,
         "Invalid request body: " \o BindCreateMessageRequest(request.body).err)

\* the database executing INSERT INTO public.users ... RETURNING ... on this table, the
\* id default having drawn id from the sequence
ExecInsertUser(table, args, id) ==
  LET row == [id |-> id, username |-> args[1].str, email |-> args[2].str,
              nickname |-> ArgColumn(args[4]), user_type |-> args[3].str,
              message_count |-> DefaultMessageCount]
      violation == UniqueViolation(row, table)
  IN  IF violation # NoError THEN [err |-> violation, users |-> table, row |-> <<>>]
      ELSE [err |-> NoError, users |-> table \cup {row}, row |-> <<row>>]

\* the row of this table with this id, if any
RowWithId(table, id) ==
  LET target == {u \in table : u.id = id}
  IN  IF target = {} THEN <<>> ELSE <<CHOOSE u \in target : TRUE>>

\* mutation: the UPDATE works on the row as it was when the requests arrived
RowSeenByUpdate_AtArrival(id) == RowWithId(SeedUsers, id)

\* the row an UPDATE ... WHERE id = $n changes: the statement locks the row and works on
\* its latest committed version
RowSeenByUpdate(id) == RowWithId(users, id)

\* the database executing UPDATE public.users SET ... WHERE id = $n RETURNING ... on this
\* table, old being the row the statement found
ExecUpdateUserOn(table, old, setParts, args) ==
  IF old = <<>> THEN [err |-> ErrNoRows, users |-> table, row |-> <<>>]
  ELSE LET new == ApplySetParts(old[1], setParts, args)
           others == {u \in table : u.id # old[1].id}
           violation == UniqueViolation(new, others)
       IN  IF violation # NoError THEN [err |-> violation, users |-> table, row |-> <<>>]
           ELSE [err |-> NoError, users |-> others \cup {new}, row |-> <<new>>]

\* the database executing INSERT INTO public.messages ... RETURNING ... at time t, the id
\* default having drawn id from the sequence
ExecInsertMessage(msgs, table, args, id, t) ==
  LET row == [id |-> id, user_id |-> args[1].int, content |-> args[2].str, created_at |-> t]
  IN  IF ~\E u \in table : u.id = row.user_id
      THEN [err |-> ErrForeignKey, messages |-> msgs, row |-> <<>>]
      ELSE [err |-> NoError, messages |-> msgs \cup {row}, row |-> <<row>>]

\* the requests that run concurrently: two bodies for POST /users; partial updates of
\* user 1, one of them with no field, and of id 4, which exists only once a user has
\* been created; messages for user 1 and for id 4
ConcurrentRequests ==
  { Request("POST /users", <<>>,
            Body(JsonStr("zed"), JsonStr("zed@x.com"), JsonStr("UTYPE_USER"), JsonAbsent)),
    Request("POST /users", <<>>,
            Body(JsonStr("amy"), JsonStr("amy@x.com"), JsonStr("UTYPE_GUEST"), JsonStr("nick"))),
    Request("PATCH /users/:user_id", <<"1">>,
            Body(JsonAbsent, JsonStr("zed@x.com"), JsonAbsent, JsonAbsent)),
    Request("PATCH /users/:user_id", <<"1">>,
            Body(JsonAbsent, JsonAbsent, JsonAbsent, JsonStr("nick"))),
    Request("PATCH /users/:user_id", <<"1">>,
            Body(JsonStr("zed"), JsonAbsent, JsonAbsent, JsonAbsent)),
    Request("PATCH /users/:user_id", <<"1">>,
            Body(JsonAbsent, JsonAbsent, JsonAbsent, JsonAbsent)),
    Request("PATCH /users/:user_id", <<"4">>,
            Body(JsonAbsent, JsonAbsent, JsonAbsent, JsonStr(""))),
    Request("POST /messages", <<>>, MessageBody(JsonNum(1), JsonStr("hi"))),
    Request("POST /messages", <<>>, MessageBody(JsonNum(4), JsonStr("hi"))) }

\* a request that has arrived and not yet been handled
Arrived(request) ==
  [req |-> request, pc |-> "received", id |-> 0, t |-> 0, row |-> <<>>,
   resp |-> NoResponse, stmts |-> <<>>]

\* the seed data and MaxConcurrent requests that have arrived together
ConcInit ==
  /\ users = SeedUsers
  /\ user_types = SeedUserTypes
  /\ messages = SeedMessages
  /\ users_id_seq = 3
  /\ messages_id_seq = 5
  /\ now = 0
  /\ req = NoRequest
  /\ resp = NoResponse
  /\ calls = <<>>
  /\ stmts = <<>>
  /\ nreq = 0
  /\ open_conns = 0
  /\ conn_log = <<>>
  /\ inflight \in { [i \in 1..MaxConcurrent |-> Arrived(f[i])] :
                      f \in [1..MaxConcurrent -> ConcurrentRequests] }

\* the handler of request i up to its first statement: it answers at once, or its
\* data-access function opens a connection
ConcReceive(i) ==
  LET r == inflight[i]
      s == MutatingStatement(r.req)
      noFields == r.req.route = "PATCH /users/:user_id"
                    /\ UpdateUserValidate(Atoi(r.req.user_id),
                                          BindUpdateUserParams(r.req.body)) = NoResponse
  IN  /\ r.pc = "received"
      /\ IF s = NoStatement
         THEN /\ inflight' = [inflight EXCEPT ![i].pc = "done", ![i].resp = EarlyAnswer(r.req)]
              /\ open_conns' = IF noFields
                               THEN DataAccess("no fields to update").open
                               ELSE NoDataAccess.open
         ELSE /\ inflight' = [inflight EXCEPT
                                ![i].pc = IF s.kind = "UPDATE public.users" THEN "write"
                                          ELSE "nextval"]
              /\ open_conns' = GetConnection([open |-> open_conns, log |-> <<>>]).open
      /\ UNCHANGED <<users, user_types, messages, users_id_seq, messages_id_seq, now,
                     req, resp, calls, stmts, nreq, conn_log>>

\* the INSERT of request i builds its row: the id default draws the next value of the
\* sequence.  A sequence is not transactional: the value is taken before the row is
\* checked and stays taken when the INSERT fails, and another statement can draw and
\* commit in between
ConcNextval(i) ==
  LET r == inflight[i]
      s == MutatingStatement(r.req)
  IN  /\ r.pc = "nextval"
      /\ IF s.kind = "INSERT public.users"
         THEN /\ users_id_seq' = users_id_seq + 1
              /\ inflight' = [inflight EXCEPT ![i].pc = "write", ![i].id = users_id_seq + 1]
              /\ UNCHANGED messages_id_seq
         ELSE /\ messages_id_seq' = messages_id_seq + 1
              /\ inflight' = [inflight EXCEPT ![i].pc = "write", ![i].id = messages_id_seq + 1]
              /\ UNCHANGED users_id_seq
      /\ UNCHANGED <<users, user_types, messages, now, req, resp, calls, stmts, nreq,
                     open_conns, conn_log>>

\* the answer of request i when its statement has failed
WriteFailed(request, err) ==
  IF request.route = "POST /users"
  THEN ErrorResponse(StatusBadRequest, "Failed to create user: " \o err)
  ELSE IF request.route = "PATCH /users/:user_id" THEN UpdateUserErrorResponse(err)
  ELSE ErrorResponse(StatusBadRequest, "Failed to create message: " \o err)

\* the statement of request i takes effect, or fails, in one step of the database; a
\* failed statement and a stored message end the request, a stored user row is followed
\* by the bitfield lookup
ConcWrite(i) ==
  LET r == inflight[i]
      s == MutatingStatement(r.req)
  IN  /\ r.pc = "write"
      /\ IF s.kind = "INSERT public.messages"
         THEN \E t \in {now, now + 1} :
                LET e == ExecInsertMessage(messages, users, s.args, r.id, t)
                    m == [ID |-> e.row[1].id, UserID |-> e.row[1].user_id,
                          Content |-> e.row[1].content, CreatedAt |-> e.row[1].created_at]
                IN  /\ messages' = e.messages
                    /\ now' = t
                    /\ open_conns' = CloseConnection([open |-> open_conns, log |-> <<>>]).open
                    /\ inflight' = [inflight EXCEPT
                         ![i].pc = "done", ![i].t = t, ![i].row = e.row,
                         ![i].stmts = Append(r.stmts, s.kind),
                         ![i].resp = IF e.err # NoError THEN WriteFailed(r.req, e.err)
                                     ELSE [status |-> StatusCreated, error |-> NoError,
                                           body |-> <<MessageResponse(m)>>]]
                    /\ UNCHANGED users
         ELSE LET e == IF s.kind = "INSERT public.users"
                       THEN ExecInsertUser(users, s.args, r.id)
                       ELSE ExecUpdateUserOn(users, RowSeenByUpdate(s.args[s.where].int),
                                             s.setParts, s.args)
              IN  /\ users' = e.users
                  /\ open_conns' = IF e.err # NoError
                                   THEN CloseConnection([open |-> open_conns, log |-> <<>>]).open
                                   ELSE open_conns
                  /\ inflight' = [inflight EXCEPT
                       ![i].pc = IF e.err # NoError THEN "done" ELSE "lookup",
                       ![i].row = e.row,
                       ![i].stmts = Append(r.stmts, s.kind),
                       ![i].resp = IF e.err # NoError THEN WriteFailed(r.req, e.err)
                                   ELSE NoResponse]
                  /\ UNCHANGED <<messages, now>>
      /\ UNCHANGED <<user_types, users_id_seq, messages_id_seq, req, resp, calls, stmts,
                     nreq, conn_log>>

\* the bitfield lookup for the row request i stored, and the answer built from both
ConcLookup(i) ==
  LET r == inflight[i]
      row == r.row[1]
      create == r.req.route = "POST /users"
  IN  /\ r.pc = "lookup"
      /\ \E found \in LookupBitfield(row.user_type) :
           LET user == [ID |-> row.id, Username |-> row.username, Email |-> row.email,
                        UserType |-> row.user_type, Nickname |-> ScanText(row.nickname),
                        PermissionBitfield |-> found.bitfield, MessageCount |-> 0]
               err == IF create THEN found.err
                      ELSE "failed to get permission bitfield: " \o found.err
           IN  inflight' = [inflight EXCEPT
                 ![i].pc = "done",
                 ![i].stmts = Append(r.stmts, "SELECT public.user_types"),
                 ![i].resp = IF found.err # NoError THEN WriteFailed(r.req, err)
                             ELSE IF create
                             THEN [status |-> StatusCreated, error |-> NoError,
                                   body |-> <<CreateUserResponse(user)>>]
                             ELSE [status |-> StatusOK, error |-> NoError,
                                   body |-> <<UpdateUserResponse(user)>>]]
      /\ open_conns' = CloseConnection([open |-> open_conns, log |-> <<>>]).open
      /\ UNCHANGED <<users, user_types, messages, users_id_seq, messages_id_seq, now,
                     req, resp, calls, stmts, nreq, conn_log>>

ConcNext ==
  \/ \E i \in DOMAIN inflight : ConcReceive(i)
  \/ \E i \in DOMAIN inflight : ConcNextval(i)
  \/ \E i \in DOMAIN inflight : ConcWrite(i)
  \/ \E i \in DOMAIN inflight : ConcLookup(i)

ConcSpec == ConcInit /\ [][ConcNext]_vars

(* ---------------------------------------------------------------------- *)
(* Properties                                                              *)
(* ---------------------------------------------------------------------- *)
PatchRoute == "PATCH /users/:user_id"

\* the member is a JSON string, so it binds to a non-nil pointer
Present(j) == BindStringPtr(j) # nil

\* the user row with this id in a users table
UserById(table, id) == CHOOSE u \in table : u.id = id

HasUser(table, id) == \E u \in table : u.id = id

\* a PATCH request that passes the handler's own checks
PatchPassesValidation(r) ==
  /\ r.route = PatchRoute
  /\ Atoi(r.user_id).err = NoError
  /\ ~r.body.malformed
  /\ Present(r.body.user_type) => Contains(ValidUserTypes, BindString(r.body.user_type))

PatchHasField(r) ==
  Present(r.body.username) \/ Present(r.body.email) \/ Present(r.body.user_type)
    \/ Present(r.body.nickname)

\* C1: PATCH /users/:user_id for an id that is not in users, with a body that passes
\* validation and carries at least one field, answers 404 (not 400) and leaves users
\* unchanged.
C1_UnknownIdAnswers404 ==
  [][ (PatchPassesValidation(req') /\ PatchHasField(req')
        /\ ~HasUser(users, Atoi(req'.user_id).value))
      => (resp'.status = StatusNotFound /\ users' = users) ]_vars

\* C2: a partial update in which username, email, user_type and nickname are all absent
\* fails with "no fields to update" and status 400 for every target id, existing or
\* not; no UPDATE statement is sent and users is the same before and after.
C2_NoFieldsToUpdate ==
  [][ (PatchPassesValidation(req') /\ ~PatchHasField(req'))
      => /\ resp'.status = StatusBadRequest
         /\ resp'.error = "Failed to update user: no fields to update"
         /\ calls' = <<"queries.UpdateUser">>
         /\ stmts' = <<>>
         /\ users' = users ]_vars

C2_Witness ==
  /\ req.route = PatchRoute
  /\ req.user_id = <<"1">>
  /\ req.body = NoBody
  /\ resp.error = "Failed to update user: no fields to update"
  /\ HasUser(users, 1)

\* the nicknames GET /users shows for this user id, over every answer it can give with 200
NicknamesRead(id) ==
  UNION { { a.body[i].nickname : i \in {k \in 1..Len(a.body) : a.body[k].id = id} }
          : a \in {b \in GetUsersAnswers : b.status = StatusOK} }

\* C3: for an existing user whose nickname is not NULL, a successful partial update with
\* nickname "" stores NULL, and every GET /users answered from then on shows the user
\* without a nickname; a successful partial update that leaves nickname out keeps the
\* stored nickname.
C3_NicknameClearedOrKept ==
  [][ (req'.route = PatchRoute /\ resp'.status = StatusOK
        /\ HasUser(users, Atoi(req'.user_id).value)
        /\ UserById(users, Atoi(req'.user_id).value).nickname # NULL)
      => \A id \in {Atoi(req'.user_id).value} :
             /\ req'.body.nickname = JsonStr("")
                  => /\ UserById(users', id).nickname = NULL
                     /\ NicknamesRead(id)' \subseteq {JsonAbsent}
             /\ ~Present(req'.body.nickname)
                  => UserById(users', id).nickname = UserById(users, id).nickname ]_vars

C3_Witness ==
  /\ req.route = PatchRoute
  /\ req.user_id = <<"1">>
  /\ req.body.nickname = JsonStr("")
  /\ resp.status = StatusOK
  /\ UserById(users, 1).nickname = NULL
  /\ NicknamesRead(1) = {JsonAbsent}

\* C4: a partial update whose user_type is present and is none of UTYPE_USER,
\* UTYPE_ADMIN, UTYPE_MODERATOR is answered 400 without calling the data layer, whatever
\* else the body carries and whether or not the target exists; users is unchanged.
C4_InvalidUserTypeRejected ==
  [][ (req'.route = PatchRoute /\ ~req'.body.malformed /\ Present(req'.body.user_type)
        /\ BindString(req'.body.user_type)
             \notin {"UTYPE_USER", "UTYPE_ADMIN", "UTYPE_MODERATOR"})
      => /\ resp'.status = StatusBadRequest
         /\ calls' = <<>>
         /\ stmts' = <<>>
         /\ users' = users ]_vars

C4_Witness ==
  /\ req.route = PatchRoute
  /\ req.user_id = <<"1">>
  /\ req.body.user_type = JsonStr("UTYPE_GUEST")
  /\ Present(req.body.username)
  /\ resp.status = StatusBadRequest
  /\ resp.error = "Invalid user type. Must be one of: UTYPE_USER, UTYPE_ADMIN, UTYPE_MODERATOR"
  /\ calls = <<>>

\* C5: whatever user_types holds (several rows of one type_key, with equal or different
\* bitfields) and however many messages a user has, a successful GET /users returns
\* exactly one record per user id: as many records as users has rows, no id twice.
C5_OneRecordPerUser ==
  (req.route = "GET /users" /\ resp.status = StatusOK)
    => /\ Len(resp.body) = Cardinality(users)
       /\ \A i, j \in 1..Len(resp.body) : resp.body[i].id = resp.body[j].id => i = j

\* C6: for each user returned by GET /users, message_count is the number of rows of
\* messages whose user_id is that user's id, for any number of user_types rows with
\* the user's type_key, the seed data included.
C6_MessageCountIsRowCount ==
  (req.route = "GET /users" /\ resp.status = StatusOK)
    => \A i \in 1..Len(resp.body) :
         resp.body[i].message_count
           = Cardinality({m \in messages : m.user_id = resp.body[i].id})

\* C7: every successful POST /users answers 201 with message_count 0, and when the
\* request carried no nickname the response has no nickname member.
C7_CreatedUserResponse ==
  (req.route = "POST /users" /\ resp.status \in 200..299)
    => /\ resp.status = StatusCreated
       /\ Len(resp.body) = 1
       /\ resp.body[1].message_count = 0
       /\ req.body.nickname = JsonAbsent => resp.body[1].nickname = JsonAbsent

C7_Witness ==
  /\ req.route = "POST /users"
  /\ req.body.nickname = JsonAbsent
  /\ resp.status = StatusCreated
  /\ resp.body[1].username = "zed"
  /\ resp.body[1].nickname = JsonAbsent
  /\ resp.body[1].message_count = 0

\* the required fields of a POST /users body that are missing or empty, in checking order
MissingFields(body) ==
  (IF BindString(body.username) = "" THEN <<"Username">> ELSE <<>>)
    \o (IF BindString(body.email) = "" THEN <<"Email">> ELSE <<>>)
    \o (IF BindString(body.user_type) = "" THEN <<"UserType">> ELSE <<>>)

\* the messages that name exactly this field: the handler's own, or the binding error
\* for this field alone
MessagesNaming(field) ==
  { "Invalid request body: " \o RequiredFieldError(field),
    CASE field = "Username" -> "Username is required"
      [] field = "Email" -> "Email is required"
      [] OTHER -> "User type is required" }

\* C8: a POST /users body in which username, email or user_type is missing or empty is
\* answered 400 with an error naming exactly the first missing field, in the order
\* username, email, user_type; no row is inserted.
C8_FirstMissingFieldNamed ==
  [][ (req'.route = "POST /users" /\ ~req'.body.malformed
        /\ Len(MissingFields(req'.body)) > 0)
      => /\ resp'.status = StatusBadRequest
         /\ resp'.error \in MessagesNaming(MissingFields(req'.body)[1])
         /\ users' = users ]_vars

\* a POST /users body with all required fields, a username and an email no row uses
FreshCreate(r, table) ==
  /\ r.route = "POST /users"
  /\ ~r.body.malformed
  /\ Len(MissingFields(r.body)) = 0
  /\ \A u \in table : /\ u.username # BindString(r.body.username)
                      /\ u.email # BindString(r.body.email)

\* C9: creating a user with fresh username and email and a user_type that has no row in
\* user_types: the INSERT succeeds, then the bitfield lookup fails and the request is
\* answered 400; the new row stays in users.
C9_CreateNotRolledBack ==
  [][ (FreshCreate(req', users)
        /\ \A t \in user_types : t.type_key # BindString(req'.body.user_type))
      => /\ resp'.status = StatusBadRequest
         /\ resp'.error = "Failed to create user: " \o ErrNoRows
         /\ stmts' = <<"INSERT public.users", "SELECT public.user_types">>
         /\ Cardinality(users') = Cardinality(users) + 1
         /\ users \subseteq users'
         /\ \E u \in users' \ users :
              /\ u.username = BindString(req'.body.username)
              /\ u.email = BindString(req'.body.email)
              /\ u.user_type = BindString(req'.body.user_type) ]_vars

C9_Witness ==
  /\ req.route = "POST /users"
  /\ req.body.user_type = JsonStr("UTYPE_GUEST")
  /\ resp.status = StatusBadRequest
  /\ resp.error = "Failed to create user: " \o ErrNoRows
  /\ \E u \in users : u.username = "zed" /\ u.user_type = "UTYPE_GUEST"

\* the column value a present member of a PATCH body asks for
RequestedColumn(column, j) ==
  IF column = "nickname" THEN (IF BindString(j) = "" THEN NULL ELSE SqlVal(BindString(j)))
  ELSE BindString(j)

\* the user_type the target row has once the UPDATE of this request is applied
UserTypeAfter(r, old) ==
  IF Present(r.body.user_type) THEN BindString(r.body.user_type) ELSE old.user_type

\* the UPDATE of this request collides with no other row's username or email
NoCollision(r, old, table) ==
  \A o \in table \ {old} :
    /\ Present(r.body.username) => o.username # BindString(r.body.username)
    /\ Present(r.body.email) => o.email # BindString(r.body.email)

\* C10: a partial update of an existing user whose user_type after the UPDATE has no row
\* in user_types is answered 400 (not 404) after the UPDATE was applied: every field
\* present in the request has its new value in users although the request failed.
C10_UpdateNotRolledBack ==
  [][ (PatchPassesValidation(req') /\ PatchHasField(req')
        /\ HasUser(users, Atoi(req'.user_id).value)
        /\ LET old == UserById(users, Atoi(req'.user_id).value)
           IN  /\ NoCollision(req', old, users)
               /\ \A t \in user_types : t.type_key # UserTypeAfter(req', old))
      => LET id == Atoi(req'.user_id).value
             new == UserById(users', id)
         IN  /\ resp'.status = StatusBadRequest
             /\ stmts' = <<"UPDATE public.users", "SELECT public.user_types">>
             /\ HasUser(users', id)
             /\ \A c \in {"username", "email", "user_type", "nickname"} :
                  Present(req'.body[c]) => new[c] = RequestedColumn(c, req'.body[c])
             /\ users' # users \/ new = UserById(users, id) ]_vars

C10_Witness ==
  /\ req.route = PatchRoute
  /\ req.user_id = <<"4">>
  /\ req.body.nickname = JsonStr("nick")
  /\ req.body.username = JsonAbsent
  /\ resp.status = StatusBadRequest
  /\ resp.error = "Failed to update user: failed to get permission bitfield: " \o ErrNoRows
  /\ HasUser(users, 4)
  /\ UserById(users, 4).user_type = "UTYPE_GUEST"
  /\ UserById(users, 4).nickname = SqlVal("nick")

ByUserRoute == "GET /users/:user_id/messages"

\* the items of the messages array of a 200 answer to a by-user read
ItemsRead == resp.body[1].messages[2]

\* the stored created_at of the message with this id
CreatedAtOf(id) == (CHOOSE m \in messages : m.id = id).created_at

\* the answer holds exactly the messages of user u, each once
ExactlyMessagesOf(u) ==
  /\ resp.body[1].messages[1] = "array"
  /\ Len(ItemsRead) = Cardinality(MessagesOfUser(u))
  /\ \A m \in MessagesOfUser(u) :
       \E i \in 1..Len(ItemsRead) :
         /\ ItemsRead[i].id = m.id
         /\ ItemsRead[i].user_id = u
         /\ ItemsRead[i].content = m.content
         /\ ItemsRead[i].created_at = FormatTime(m.created_at)

\* C11 as claimed: GetMessagesByUser(u) returns exactly the messages of u, and of every two
\* consecutive items the earlier one's creation time is strictly greater than the later
\* one's, also when two messages of u share a creation timestamp.
C11_StrictlyDescending ==
  (req.route = ByUserRoute /\ resp.status = StatusOK)
    => /\ ExactlyMessagesOf(Atoi(req.user_id).value)
       /\ \A i \in 1..(Len(ItemsRead) - 1) :
            CreatedAtOf(ItemsRead[i].id) > CreatedAtOf(ItemsRead[i + 1].id)

\* C11 amended: GetMessagesByUser(u) returns exactly the messages of u, and of every two
\* consecutive items the earlier one's creation time is greater than or equal to the
\* later one's, as stored and as formatted in the response.
C11_Descending ==
  (req.route = ByUserRoute /\ resp.status = StatusOK)
    => /\ ExactlyMessagesOf(Atoi(req.user_id).value)
       /\ \A i \in 1..(Len(ItemsRead) - 1) :
            /\ CreatedAtOf(ItemsRead[i].id) >= CreatedAtOf(ItemsRead[i + 1].id)
            /\ ItemsRead[i].created_at >= ItemsRead[i + 1].created_at

\* a read of user 1, who has the seed message and a later one, newest first
C11_Witness ==
  /\ req.route = ByUserRoute
  /\ req.user_id = <<"1">>
  /\ resp.status = StatusOK
  /\ Len(ItemsRead) = 2
  /\ ItemsRead[2].id = 1
  /\ CreatedAtOf(ItemsRead[1].id) > CreatedAtOf(ItemsRead[2].id)

DeletedIds == {u.id : u \in users} \ {u.id : u \in users'}

\* C13: deleting a user u leaves no message with user_id u in messages and leaves every
\* message of every other user as it was.
C13_DeleteCascades ==
  [][ DeletedIds # {}
      => /\ \A m \in messages' : m.user_id \notin DeletedIds
         /\ messages' = {m \in messages : m.user_id \notin DeletedIds} ]_vars

\* user 2 and both of its seed messages are gone, the other three messages are there
C13_Witness ==
  /\ ~HasUser(users, 2)
  /\ HasUser(users, 1) /\ HasUser(users, 3)
  /\ messages = {m \in SeedMessages : m.user_id # 2}
  /\ Cardinality(messages) = 3

\* a POST /messages whose body is a JSON object
PostMessage(r) == r.route = "POST /messages" /\ ~r.body.malformed

\* C14: POST /messages with a positive user_id that is no user's id and with non-empty
\* content is answered 400 and no row is inserted into messages.
C14_UnknownUserRejected ==
  [][ (PostMessage(req') /\ BindInt(req'.body.user_id) > 0
        /\ ~HasUser(users, BindInt(req'.body.user_id))
        /\ BindString(req'.body.content) # "")
      => /\ resp'.status = StatusBadRequest
         /\ calls' = <<"queries.CreateMessage">>
         /\ messages' = messages ]_vars

C14_Witness ==
  /\ PostMessage(req)
  /\ req.body = MessageBody(JsonNum(4), JsonStr("hi"))
  /\ ~HasUser(users, 4)
  /\ resp.status = StatusBadRequest
  /\ resp.error = "Failed to create message: " \o ErrForeignKey
  /\ stmts = <<"INSERT public.messages">>

\* C15: POST /messages with user_id <= 0 (zero or negative) or with empty content is
\* rejected with 400 by the handler, and queries.CreateMessage is not called.
C15_NonPositiveUserIdNotStored ==
  [][ (PostMessage(req')
        /\ (BindInt(req'.body.user_id) <= 0 \/ BindString(req'.body.content) = ""))
      => /\ resp'.status = StatusBadRequest
         /\ calls' = <<>> ]_vars

\* no two rows of the table share a username, no two share an email
UsersUnique(table) ==
  \A a, b \in table : (a.username = b.username \/ a.email = b.email) => a = b

\* a POST /users that passes the handler's checks and repeats a stored username or email
DuplicateCreate(r, table) ==
  /\ r.route = "POST /users"
  /\ ~r.body.malformed
  /\ Len(MissingFields(r.body)) = 0
  /\ \E u \in table : \/ u.username = BindString(r.body.username)
                      \/ u.email = BindString(r.body.email)

\* a PATCH of an existing user that passes the handler's checks and asks for a username
\* or an email another row has
DuplicateUpdate(r, table) ==
  /\ PatchPassesValidation(r)
  /\ HasUser(table, Atoi(r.user_id).value)
  /\ ~NoCollision(r, UserById(table, Atoi(r.user_id).value), table)

C17_CreateKeepsSuppliedNickname ==
  (req.route = "POST /users" /\ resp.status = StatusCreated)
    => LET row == UserById(users, resp.body[1].id)
       IN  /\ req.body.nickname = JsonAbsent
                => (row.nickname = NULL /\ resp.body[1].nickname = JsonAbsent)
           /\ Present(req.body.nickname)
                => /\ row.nickname = SqlVal(BindString(req.body.nickname))
                   /\ resp.body[1].nickname = JsonStr(BindString(req.body.nickname))

\* C18: every data-access operation acquires exactly one connection and closes it on
\* every exit path, success or error, before the handler answers; after every request no
\* connection is open, and a handler that answers without the data layer opens none.
C18_ConnectionClosed ==
  /\ open_conns = 0
  /\ Len(calls) <= 1
  /\ calls # <<>> => conn_log = <<"GetConnection", "conn.Close">>
  /\ calls = <<>> => conn_log = <<>>
  /\ req.route # "" /\ resp.status \in {StatusOK, StatusCreated} => calls # <<>>

\* a data-access call that returned an error, its connection closed
C18_Witness ==
  /\ calls = <<"queries.UpdateUser">>
  /\ resp.status = StatusBadRequest
  /\ resp.error = "Failed to update user: " \o ErrUniqueUsername
  /\ conn_log = <<"GetConnection", "conn.Close">>
  /\ open_conns = 0

\* the answers that report a constraint violation, a lookup miss or a scan error
StorageFailureMessages ==
  { "Failed to create user: " \o e : e \in {ErrUniqueUsername, ErrUniqueEmail, ErrNoRows} }
    \cup { "Failed to update user: " \o e :
             e \in {ErrUniqueUsername, ErrUniqueEmail,
                    "failed to get permission bitfield: " \o ErrNoRows} }
    \cup { "Failed to create message: " \o ErrForeignKey,
           "Failed to retrieve users: " \o ErrScanNull }

ReadRoutes == {"GET /users", "GET /messages", ByUserRoute}

\* C19: every storage-layer failure (unique violation, foreign-key violation, bitfield
\* lookup miss, scan error) is answered 400; the only failure status other than 400 is
\* 404, and only from PATCH /users/:user_id; a success is 200 for the reads and for
\* PATCH and 201 for the two POSTs.
C19_StatusMapping ==
  req.route # ""
    => /\ resp.status \in {StatusOK, StatusCreated, StatusBadRequest, StatusNotFound}
       /\ resp.error \in StorageFailureMessages => resp.status = StatusBadRequest
       /\ (calls # <<>> /\ resp.error # NoError)
            => resp.status \in {StatusBadRequest, StatusNotFound}
       /\ resp.status = StatusNotFound => req.route = PatchRoute
       /\ resp.status \in {StatusOK, StatusCreated} <=> resp.error = NoError
       /\ resp.error = NoError
            => resp.status = IF req.route \in ReadRoutes \cup {PatchRoute}
                             THEN StatusOK ELSE StatusCreated

\* GET /users fails while scanning a user whose type has no user_types row
C19_Witness ==
  /\ req.route = "GET /users"
  /\ resp.status = StatusBadRequest
  /\ resp.error = "Failed to retrieve users: " \o ErrScanNull
  /\ resp.error \in StorageFailureMessages

\* the fields of a PATCH body that are present, in the order username, email,
\* user_type, nickname
PresentFields(body) ==
  (IF Present(body.username) THEN <<"username">> ELSE <<>>)
    \o (IF Present(body.email) THEN <<"email">> ELSE <<>>)
    \o (IF Present(body.user_type) THEN <<"user_type">> ELSE <<>>)
    \o (IF Present(body.nickname) THEN <<"nickname">> ELSE <<>>)

\* "f1 = $1, f2 = $2, ..." for the fields from position k on
RECURSIVE NumberedAssignments(_, _)
NumberedAssignments(fields, k) ==
  IF k > Len(fields) THEN ""
  ELSE fields[k] \o " = $" \o ToString(k)
         \o (IF k < Len(fields) THEN ", " ELSE "") \o NumberedAssignments(fields, k + 1)

\* the argument that carries a field's value: text, and for nickname a pgtype.Text that
\* is NULL for the empty string
FieldArgument(field, j) ==
  IF field = "nickname" /\ BindString(j) = "" THEN ArgNull ELSE ArgText(BindString(j))

\* C20: for each of the 15 non-empty subsets of present fields the UPDATE has its
\* assignments in the order username, email, user_type, nickname; the k-th assignment
\* uses placeholder $k and the k-th argument is that field's value; WHERE id uses
\* $(n+1) for n present fields and its argument, the last, is the target id; the text
\* holds column names and placeholders only.
C20_SetClauseOrderAndPlaceholders ==
  (nreq = 1 /\ Len(PresentFields(req.body)) > 0)
    => LET fields == PresentFields(req.body)
           n == Len(fields)
       IN  /\ Len(stmts) >= 1
           /\ stmts[1].sql = "UPDATE public.users SET " \o NumberedAssignments(fields, 1)
                               \o " WHERE id = $" \o ToString(n + 1)
                               \o " RETURNING id, username, email, user_type, nickname"
           /\ Len(stmts[1].args) = n + 1
           /\ \A k \in 1..n : stmts[1].args[k] = FieldArgument(fields[k], req.body[fields[k]])
           /\ stmts[1].args[n + 1] = ArgInt(Atoi(req.user_id).value)

\* email and nickname present, username and user_type absent
C20_Witness ==
  /\ nreq = 1
  /\ req.user_id = <<"2">>
  /\ PresentFields(req.body) = <<"email", "nickname">>
  /\ stmts[1].sql = "UPDATE public.users SET email = $1, nickname = $2 WHERE id = $3 RETURNING id, username, email, user_type, nickname"
  /\ stmts[1].args = <<ArgText("zed@x.com"), ArgText("nick"), ArgInt(2)>>

\* the nickname member of a response for this stored nickname
NicknameMember(v) == IF v = NULL THEN JsonAbsent ELSE JsonStr(v[1])

\* C21: a successful partial update of user u changes only the columns of u whose fields
\* are present in the request; each absent field keeps its value, every other user row
\* and the messages table are unchanged; the response carries the new value of each
\* present field and the prior value of each absent one.
C21_UpdateChangesOnlyPresentFields ==
  [][ (req'.route = PatchRoute /\ resp'.status = StatusOK)
      => \A id \in {Atoi(req'.user_id).value} :
           /\ HasUser(users, id)
           /\ HasUser(users', id)
           /\ \A c \in {"username", "email", "user_type", "nickname"} :
                UserById(users', id)[c]
                  = IF Present(req'.body[c]) THEN RequestedColumn(c, req'.body[c])
                    ELSE UserById(users, id)[c]
           /\ UserById(users', id).message_count = UserById(users, id).message_count
           /\ users' \ {UserById(users', id)} = users \ {UserById(users, id)}
           /\ messages' = messages
           /\ Len(resp'.body) = 1
           /\ resp'.body[1].id = id
           /\ resp'.body[1].username = UserById(users', id).username
           /\ resp'.body[1].email = UserById(users', id).email
           /\ resp'.body[1].userType = UserById(users', id).user_type
           /\ resp'.body[1].nickname = NicknameMember(UserById(users', id).nickname) ]_vars

\* email and user_type are set, username and nickname are kept
C21_Witness ==
  /\ req.route = PatchRoute
  /\ req.user_id = <<"1">>
  /\ req.body = Body(JsonAbsent, JsonStr("zed@x.com"), JsonStr("UTYPE_MODERATOR"), JsonAbsent)
  /\ resp.status = StatusOK
  /\ UserById(users, 1) = [id |-> 1, username |-> "Liam", email |-> "zed@x.com",
                           nickname |-> SqlVal("L dawg"), user_type |-> "UTYPE_MODERATOR",
                           message_count |-> 1]
  /\ resp.body[1].nickname = JsonStr("L dawg")

\* C22: when the scan of any row fails during GetUsers, the operation returns an error
\* and no user records, not the rows scanned before the failure, and GET /users answers
\* 400 with a "Failed to retrieve users" message and no users list.
C22_NoPartialUsers ==
  /\ \A ordered \in OrderById(GetUsersResultSet) :
       queries_GetUsers(ordered).err # NoError => queries_GetUsers(ordered).rows = <<>>
  /\ (req.route = "GET /users" /\ resp.status # StatusOK)
       => /\ resp.status = StatusBadRequest
          /\ resp.error \in {"Failed to retrieve users: " \o ErrScanNull}
          /\ resp.body = <<>>

\* GET /users fails on the fourth row, after three rows were scanned
C22_Witness ==
  /\ req.route = "GET /users"
  /\ resp.status = StatusBadRequest
  /\ resp.body = <<>>
  /\ Cardinality(users) = 4
  /\ \E ordered \in OrderById(GetUsersResultSet) :
       /\ Len(ordered) >= 4
       /\ \A i \in 1..3 : ScanUserRow(ordered[i]).err = NoError
       /\ ScanUserRow(ordered[Len(ordered)]).err # NoError

\* C23: the records of a successful GetUsers are in strictly ascending order of user id.
C23_StrictlyAscendingIds ==
  (req.route = "GET /users" /\ resp.status = StatusOK)
    => \A i \in 1..(Len(resp.body) - 1) : resp.body[i].id < resp.body[i + 1].id

InvalidUserTypeMessage ==
  "Invalid user type. Must be one of: UTYPE_USER, UTYPE_ADMIN, UTYPE_MODERATOR"

\* C24: the PATCH handler checks, in this order, that user_id parses as an integer, that
\* the body binds as JSON, and that user_type (if present) is one of the three types,
\* and only then calls the data layer; a request failing a check is answered 400 with
\* that check's message and reaches no storage, so an invalid user_type for an unknown
\* id gives the user-type error.
C24_PatchCheckOrder ==
  [][ req'.route = PatchRoute
      => IF Atoi(req'.user_id).err # NoError
         THEN /\ resp' = ErrorResponse(StatusBadRequest, "Invalid user ID")
              /\ calls' = <<>> /\ stmts' = <<>> /\ users' = users
         ELSE IF req'.body.malformed
         THEN /\ resp' = ErrorResponse(StatusBadRequest,
                                       "Invalid request body: " \o ErrMalformedJSON)
              /\ calls' = <<>> /\ stmts' = <<>> /\ users' = users
         ELSE IF /\ Len(req'.body.user_type) = 2
                 /\ req'.body.user_type[2] \notin {"UTYPE_USER", "UTYPE_ADMIN", "UTYPE_MODERATOR"}
         THEN /\ resp' = ErrorResponse(StatusBadRequest, InvalidUserTypeMessage)
              /\ calls' = <<>> /\ stmts' = <<>> /\ users' = users
         ELSE calls' = <<"queries.UpdateUser">> ]_vars

\* an invalid user_type for an id that is not in users
C24_Witness ==
  /\ req.route = PatchRoute
  /\ req.user_id = <<"4">>
  /\ ~HasUser(users, 4)
  /\ req.body.user_type = JsonStr("UTYPE_GUEST")
  /\ resp = ErrorResponse(StatusBadRequest, InvalidUserTypeMessage)
  /\ calls = <<>>

\* some user row has a user_type that matches no user_types row
UserWithoutType ==
  \E u \in users : \A t \in user_types : t.type_key # u.user_type

\* C25: in any state where some user row has a user_type that matches no user_types row,
\* every GetUsers call returns an error and no users, because the NULL bitfield of that
\* row cannot be scanned into PermissionBitfield; this lasts as long as the row and
\* user_types stay so.
C25_GetUsersFailsOnNullBitfield ==
  UserWithoutType
    => /\ \A ordered \in OrderById(GetUsersResultSet) :
            /\ queries_GetUsers(ordered).err = ErrScanNull
            /\ queries_GetUsers(ordered).rows = <<>>
       /\ \A a \in GetUsersAnswers : a.status = StatusBadRequest /\ a.body = <<>>
       /\ req.route = "GET /users"
            => resp = ErrorResponse(StatusBadRequest, "Failed to retrieve users: " \o ErrScanNull)

\* GET /users after a POST /users with a user_type outside the enumerated set
C25_Witness ==
  /\ req.route = "GET /users"
  /\ \E u \in users : u.user_type = "UTYPE_GUEST" /\ u.username = "zed"
  /\ UserWithoutType
  /\ resp.status = StatusBadRequest

\* C26: the message_count of a successful PATCH response is always 0, whatever number
\* of messages the user owns, so for a user with at least one message it differs from
\* the message_count GET /users reports for that user in the same state.
C26_PatchMessageCountZero ==
  (req.route = PatchRoute /\ resp.status = StatusOK)
    => /\ resp.body[1].message_count = 0
       /\ MessagesOfUser(resp.body[1].id) # {}
            => \A a \in GetUsersAnswers :
                 a.status = StatusOK
                   => \A i \in 1..Len(a.body) :
                        a.body[i].id = resp.body[1].id
                          => a.body[i].message_count # resp.body[1].message_count

\* user 1 owns a message and GET /users can answer in this state
C26_Witness ==
  /\ req.route = PatchRoute
  /\ req.user_id = <<"1">>
  /\ resp.status = StatusOK
  /\ resp.body[1].message_count = 0
  /\ MessagesOfUser(1) # {}
  /\ \E a \in GetUsersAnswers : a.status = StatusOK /\ a.body[1].message_count > 0

\* the members of a PATCH body other than nickname that are JSON strings, in the order
\* username, email, user_type
StringFieldsButNickname(body) ==
  (IF Len(body.username) = 2 THEN <<"username">> ELSE <<>>)
    \o (IF Len(body.email) = 2 THEN <<"email">> ELSE <<>>)
    \o (IF Len(body.user_type) = 2 THEN <<"user_type">> ELSE <<>>)

\* the nickname the seed data stores for this id, NULL when there is no such user
SeedNickname(id) ==
  IF HasUser(SeedUsers, id) THEN UserById(SeedUsers, id).nickname ELSE NULL

\* the nickname stored for this id now, NULL when there is no such user
NicknameNow(id) == IF HasUser(users, id) THEN UserById(users, id).nickname ELSE NULL

\* C27: in a PATCH body a nickname given as JSON null is handled like an omitted
\* nickname: it adds no assignment and no argument, the stored nickname stays, and a
\* body whose only member is nickname: null fails with "no fields to update"; a stored
\* nickname is cleared only by the empty string.
C27_NullNicknameIsOmitted ==
  nreq = 1
    => LET id == Atoi(req.user_id).value
           others == StringFieldsButNickname(req.body)
       IN  /\ req.body.nickname = JsonNull
                => /\ NicknameNow(id) = SeedNickname(id)
                   /\ IF Len(others) = 0
                      THEN /\ resp = ErrorResponse(StatusBadRequest,
                                       "Failed to update user: no fields to update")
                           /\ stmts = <<>>
                           /\ users = SeedUsers
                      ELSE /\ stmts[1].sql
                                = "UPDATE public.users SET " \o NumberedAssignments(others, 1)
                                    \o " WHERE id = $" \o ToString(Len(others) + 1)
                                    \o " RETURNING id, username, email, user_type, nickname"
                           /\ Len(stmts[1].args) = Len(others) + 1
           /\ (SeedNickname(id) # NULL /\ HasUser(users, id) /\ NicknameNow(id) = NULL)
                => req.body.nickname = JsonStr("")

\* nickname: null next to a new email: the email is set, the nickname stays
C27_Witness ==
  /\ nreq = 1
  /\ req.user_id = <<"1">>
  /\ req.body = Body(JsonAbsent, JsonStr("zed@x.com"), JsonAbsent, JsonNull)
  /\ resp.status = StatusOK
  /\ UserById(users, 1).email = "zed@x.com"
  /\ UserById(users, 1).nickname = SqlVal("L dawg")
  /\ Len(stmts[1].args) = 2

\* the tables before the concurrent requests run
SeedTables == [users |-> SeedUsers, messages |-> SeedMessages, useq |-> 3, mseq |-> 5]

\* the requests in flight that send a mutating statement
Writers == {i \in DOMAIN inflight : MutatingStatement(inflight[i].req) # NoStatement}

MutatingKinds == {"INSERT public.users", "UPDATE public.users", "INSERT public.messages"}

\* every request in flight has been answered
AllAnswered == inflight # <<>> /\ \A i \in DOMAIN inflight : inflight[i].pc = "done"

\* the tables T after the mutating statement of request i has run alone on them, with the
\* timestamp it had; its id is the one it drew (drawn), or the next of T's sequence
ApplyStatement(T, i, drawn) ==
  LET r == inflight[i]
      s == MutatingStatement(r.req)
  IN  IF s.kind = "INSERT public.users"
      THEN [T EXCEPT !.users = ExecInsertUser(T.users, s.args,
                                              IF drawn THEN r.id ELSE T.useq + 1).users,
                     !.useq = T.useq + 1]
      ELSE IF s.kind = "UPDATE public.users"
      THEN [T EXCEPT !.users = ExecUpdateUserOn(T.users, RowWithId(T.users, s.args[s.where].int),
                                                s.setParts, s.args).users]
      ELSE [T EXCEPT !.messages = ExecInsertMessage(T.messages, T.users, s.args,
                                                    IF drawn THEN r.id ELSE T.mseq + 1,
                                                    r.t).messages,
                     !.mseq = T.mseq + 1]

\* the users and messages tables every serial order of these statements ends with
RECURSIVE SerialOutcomes(_, _, _)
SerialOutcomes(T, rest, drawn) ==
  IF rest = {} THEN {[users |-> T.users, messages |-> T.messages]}
  ELSE UNION { SerialOutcomes(ApplyStatement(T, i, drawn), rest \ {i}, drawn) : i \in rest }

\* no request has sent more than one mutating statement
AtMostOneMutatingStatement ==
  \A i \in DOMAIN inflight :
    Cardinality({k \in 1..Len(inflight[i].stmts) : inflight[i].stmts[k] \in MutatingKinds}) <= 1

\* the columns the UPDATE of request i assigns
SetColumns(i) ==
  LET s == MutatingStatement(inflight[i].req)
  IN  {s.setParts[k].column : k \in 1..Len(s.setParts)}

\* the user id the UPDATE of request i names
UpdatedId(i) ==
  LET s == MutatingStatement(inflight[i].req)
  IN  s.args[s.where].int

\* request i is a partial update whose UPDATE changed a row
UpdateApplied(i) ==
  /\ MutatingStatement(inflight[i].req).kind = "UPDATE public.users"
  /\ inflight[i].row # <<>>

\* every column a partial update assigned, and no other partial update of the same user
\* assigned, holds the value it was given
ConcurrentUpdatesBothTakeEffect ==
  \A i \in DOMAIN inflight :
    UpdateApplied(i) =>
      \A c \in SetColumns(i) :
        (\A k \in DOMAIN inflight \ {i} :
           ~(UpdateApplied(k) /\ UpdatedId(k) = UpdatedId(i) /\ c \in SetColumns(k)))
          => RowWithId(users, UpdatedId(i))[1][c] = inflight[i].row[1][c]

\* C28 (as stated): every request issues at most one mutating statement, each applied
\* atomically, so the tables after any interleaving of concurrent create-user,
\* partial-update and create-message requests are those of some serial order of the
\* mutating statements, and two concurrent partial updates of one user that set
\* different fields both take effect.
C28_SerialOrderOfStatements ==
  /\ AtMostOneMutatingStatement
  /\ AllAnswered =>
       /\ [users |-> users, messages |-> messages] \in SerialOutcomes(SeedTables, Writers, FALSE)
       /\ ConcurrentUpdatesBothTakeEffect

\* C28 (amended): every request issues at most one mutating statement, each applied
\* atomically; the tables after any interleaving are those of some serial order of the
\* mutating statements in which every INSERT keeps the id it drew from its sequence
\* and the timestamp it was given (an id is drawn before the row is checked, so the
\* ids need not follow any serial order); two concurrent partial updates of one user
\* that set different fields both take effect.
C28_SerialOrderWithDrawnIds ==
  /\ AtMostOneMutatingStatement
  /\ AllAnswered =>
       /\ [users |-> users, messages |-> messages] \in SerialOutcomes(SeedTables, Writers, TRUE)
       /\ ConcurrentUpdatesBothTakeEffect

\* two POST /users requests for the same username ran interleaved: the one that drew the
\* earlier id was refused and the other one's row is stored; and both have been answered
C28_Witness ==
  /\ AllAnswered
  /\ \E i, j \in DOMAIN inflight :
       /\ inflight[i].req.route = "POST /users"
       /\ inflight[j].req.route = "POST /users"
       /\ 0 < inflight[i].id
       /\ inflight[i].id < inflight[j].id
       /\ inflight[i].resp.status = StatusBadRequest
       /\ inflight[j].resp.status = StatusCreated
       /\ inflight[j].row[1] \in users

\* C29: GetUsers, GetMessages and GetMessagesByUser leave users, user_types and
\* messages unchanged, whether they succeed or fail, and two consecutive calls with no
\* write between them return the same result.
C29_ReadsRepeatable ==
  [][ req'.route \in ReadRoutes
      => /\ users' = users
         /\ user_types' = user_types
         /\ messages' = messages
         /\ req = req' => resp' = resp ]_vars

\* every message belongs to an existing user
MessagesReferenceUsers == \A m \in messages : HasUser(users, m.user_id)

\* C30: in every state reached from the seed data by create-user, partial-update,
\* create-message and delete-user operations every row of messages has the user_id of
\* an existing user; a successful CreateMessage adds exactly one row, with the
\* request's user_id and content and an id no existing message has.
C30_MessagesReferenceUsers ==
  /\ []MessagesReferenceUsers
  /\ [][ (PostMessage(req') /\ resp'.status = StatusCreated)
         => /\ messages \subseteq messages'
            /\ Cardinality(messages' \ messages) = 1
            /\ \A m \in messages' \ messages :
                 /\ m.user_id = BindInt(req'.body.user_id)
                 /\ m.content = BindString(req'.body.content)
                 /\ \A o \in messages : o.id # m.id
                 /\ resp'.body[1].id = m.id
                 /\ resp'.body[1].user_id = m.user_id
                 /\ resp'.body[1].content = m.content ]_vars

\* a message created for user 1 after another user and its messages were deleted
C30_Witness ==
  /\ PostMessage(req)
  /\ resp.status = StatusCreated
  /\ ~HasUser(users, 2)
  /\ Cardinality(messages) = 4
  /\ \E m \in messages : m.id = 6 /\ m.user_id = 1 /\ m.content = "hi"

====
